---- MODULE Spec2Model ----
(***************************************************************************)
(* The ONNX -> Relax importer of python/tvm/relax/frontend/onnx/           *)
(* onnx_frontend.py as a state machine: ONNXGraphImporter.from_onnx binds   *)
(* the initializers, binds the declared inputs, checks the operator names, *)
(* converts the nodes in declaration order and emits the outputs.          *)
(*                                                                         *)
(* The node list's operator and output names are fixed by Init (they are   *)
(* read by _check_for_unsupported_ops before any node is converted); the   *)
(* other protobuf fields (initializer tensors, declared inputs, a node's   *)
(* input references and attributes, the declared outputs) are the inputs   *)
(* of the step that reads them, and so is the entry of shape_dict for a    *)
(* declared input (a name is looked up at most once).  MaxGraph bounds the *)
(* number of initializers, declared inputs and nodes of one graph.         *)
(*                                                                         *)
(* Tensor data and the numerics of the Relax operators are not modelled:   *)
(* a value is its class (relax.Constant, relax.Var, relax.ShapeExpr,       *)
(* relax.Call), the class of its struct_info, the dimensions of            *)
(* struct_info.shape, the integers it holds (a Constant's array, a         *)
(* ShapeExpr's values) and where the value was created.  Arrays are flat   *)
(* lists of integers with a shape; of the dtypes only that of a parameter  *)
(* is modelled.  A name is a string; _sanitize_name works on its           *)
(* characters.                                                             *)
(*                                                                         *)
(* Spec is the pass of ONNXGraphImporter.from_onnx over a graph;           *)
(* SpecModel puts the module-level from_onnx (IR version, checker, opset   *)
(* detection) before that pass; SpecAttr is the loop of _parse_attr over   *)
(* attribute records of any two fields; SpecConverter is get_converter     *)
(* for every registered operator and opset; SpecSanitize is a sequence of  *)
(* calls of _sanitize_name on one importer; SpecGetitem is                 *)
(* onnx_input.__getitem__ on operand lists; SpecOps is the node loop for   *)
(* the operators with parameter operands (Unsqueeze, Slice, Pad, Tile,     *)
(* Split, Gather) and LayerNormalization, started after the initializers   *)
(* and declared inputs of a few graphs were bound.                         *)
(***************************************************************************)
EXTENDS Integers, Sequences, FiniteSets, TLC

\* ---- bounds of the model ----
MaxGraph == 3
MaxNodes == 2
MaxRefs == 2
MaxAttrs == 2
MaxOutput == 2
MaxOpset == 19
MaxImports == 2

VARIABLES
  node,         \* graph.node: the node records (op_type, output)
  opset,        \* self.opset
  pc,           \* position of from_onnx
  initializer,  \* graph.initializer read so far
  input,        \* graph.input read so far
  output,       \* graph.output, read by the final step
  _nodes,       \* self._nodes: name -> relax expression
  _inputs,      \* self._inputs: insertion-ordered name -> expression
  node_index,   \* index of the node _construct_nodes is at (0-based)
  call,         \* the last converter invocation of _convert_operator
  num_calls,    \* number of converter invocations so far
  error,        \* the exception that ended the pass
  func,         \* the emitted "main" function
  query,        \* an (operator, opset) request to get_converter
  converter,    \* what get_converter answered
  _shape,       \* self._shape: the entries of shape_dict looked up so far
  warnings,     \* the warnings.warn calls so far
  model,        \* the ModelProto given to the module-level from_onnx
  opset_arg,    \* the opset argument of the module-level from_onnx
  cur_attr,     \* the AttributeProto _parse_attr decoded last
  attr_map,     \* attrs of _parse_attr: attribute name -> field stored
  attr_count,   \* number of AttributeProtos _parse_attr has decoded
  _dtype,       \* self._dtype: the dtype_dict the importer was built with
  _sanitize,    \* self._sanitize
  _name_supply, \* self._name_supply: the names issued so far
  dtype_dict,   \* the dtype_dict argument of the module-level from_onnx
  sanitize_input_names,  \* its sanitize_input_names argument
  issued,       \* the names _sanitize_name was asked for on its own, and
                \* what it returned
  onnx_inputs,  \* an onnx_input list
  position,     \* the index asked of it
  got           \* what onnx_input.__getitem__ answered

\* the arguments of the module-level from_onnx
caller_vars == <<model, opset_arg, dtype_dict, sanitize_input_names>>

\* the arguments ONNXGraphImporter was constructed with
config_vars == <<_dtype, _sanitize>>

\* a call of onnx_input.__getitem__
getitem_vars == <<onnx_inputs, position, got>>

\* the loop of _parse_attr
attr_vars == <<cur_attr, attr_map, attr_count>>

vars == <<node, opset, pc, initializer, input, output, _nodes, _inputs,
          node_index, call, num_calls, error, func, query, converter,
          _shape, warnings, caller_vars, attr_vars, config_vars,
          _name_supply, issued, getitem_vars>>

\* ---- helpers ----
SeqUpTo(S, n) == UNION {[1..k -> S] : k \in 0..n}

Range(s) == {s[i] : i \in 1..Len(s)}

SetToSeq(S) == CHOOSE s \in [1..Cardinality(S) -> S] : Range(s) = S

SetMax(S) == CHOOSE m \in S : \A x \in S : x <= m

SetMin(S) == CHOOSE m \in S : \A x \in S : m <= x

\* A Python exception: its class and what tells it from the other
\* exceptions of that class (the key of a KeyError, the message).
Raise(kind, arg) == [ok |-> FALSE, exc |-> [kind |-> kind, arg |-> arg]]

\* ---- the operator registry ----
convert_map_items ==
  { <<"MatMul", {13}>>, <<"Concat", {13}>>, <<"Add", {13}>>, <<"Mul", {13}>>,
    <<"Cast", {13}>>, <<"Gather", {13}>>, <<"Gemm", {13}>>,
    <<"Reshape", {13}>>, <<"Div", {14}>>, <<"Sigmoid", {13}>>,
    <<"Softmax", {13}>>, <<"Transpose", {13}>>, <<"Unsqueeze", {11, 13}>>,
    <<"Gelu", {1}>>, <<"BiasGelu", {1}>>, <<"Where", {16}>>,
    <<"Clip", {13}>>, <<"Equal", {13}>>, <<"Shape", {13}>>, <<"Not", {13}>>,
    <<"Tanh", {13}>>, <<"Sqrt", {13}>>, <<"Relu", {13}>>, <<"Conv", {11}>>,
    <<"Pow", {13}>>, <<"Erf", {13}>>, <<"CumSum", {14}>>,
    <<"Squeeze", {13}>>, <<"Constant", {13}>>, <<"Sub", {13}>>,
    <<"Sin", {7}>>, <<"Cos", {7}>>, <<"Neg", {13}>>, <<"Abs", {13}>>,
    <<"Min", {13}>>, <<"Max", {13}>>, <<"Log", {13}>>, <<"Exp", {1, 13}>>,
    <<"Less", {13}>>, <<"LessOrEqual", {13}>>,
    <<"LayerNormalization", {17}>>, <<"SkipLayerNormalization", {1}>>,
    <<"EmbedLayerNormalization", {1}>>, <<"InstanceNormalization", {6}>>,
    <<"ReduceMax", {11}>>, <<"ReduceMin", {11}>>, <<"ReduceSum", {11, 13}>>,
    <<"ReduceMean", {13}>>, <<"ReduceProd", {13}>>,
    <<"ReduceLogSumExp", {13}>>, <<"ReduceLogSum", {13}>>,
    <<"ReduceSumSquare", {13}>>, <<"ReduceL1", {13}>>, <<"ReduceL2", {13}>>,
    <<"ArgMax", {1, 11, 12}>>, <<"ArgMin", {1, 11, 12}>>, <<"Expand", {13}>>,
    <<"ConstantOfShape", {9}>>, <<"Slice", {13}>>, <<"Attention", {1}>>,
    <<"Pad", {11}>>, <<"Split", {1, 13}>>, <<"Tile", {13}>>,
    <<"BatchNormalization", {16}>>, <<"GlobalAveragePool", {1}>>,
    <<"Flatten", {13}>>, <<"MaxPool", {12}>>, <<"Identity", {1}>>,
    <<"Resize", {18}>>, <<"Einsum", {12}>>, <<"Range", {12}>>,
    <<"Greater", {13}>>, <<"Reciprocal", {13}>>, <<"OneHot", {11}>> }

\* operator name -> the x of every _impl_vx the converter class defines
_get_convert_map ==
  [op \in {e[1] : e \in convert_map_items} |->
     (CHOOSE e \in convert_map_items : e[1] = op)[2]]

\* Python's s[i] for a 0-based index i with -Len(s) <= i < Len(s)
PyIndex(s, i) == IF i < 0 THEN s[Len(s) + i + 1] ELSE s[i + 1]

\* A plausible slip: the selected position is not moved back by one.
get_converter_noshift(cls, opset_) ==
  LET impl == _get_convert_map[cls]
      versions == SortSeq(SetToSeq(impl) \o <<opset_>>, <)
      at == SetMax({i \in 0..(Len(versions) - 1) : versions[i + 1] = opset_})
      version == PyIndex(versions, at)
  IN IF version \in impl
       THEN [ok |-> TRUE, version |-> version]
       ELSE Raise("NotImplementedError", "opset version not implemented")

\* OnnxOpConverter.get_converter: the version of the _impl_vx it returns
get_converter(cls, opset_) ==
  LET impl == _get_convert_map[cls]
      versions == SortSeq(SetToSeq(impl) \o <<opset_>>, <)
      at == SetMax({i \in 0..(Len(versions) - 1) : versions[i + 1] = opset_}) - 1
      version == PyIndex(versions, at)
  IN IF version \in impl
       THEN [ok |-> TRUE, version |-> version]
       ELSE Raise("NotImplementedError", "opset version not implemented")

\* ---- relax expressions ----
\* kind: the Python class; sinfo: the class of struct_info; shape: the
\* dimensions of struct_info.shape, <<>> when it is falsy (None, or a
\* ShapeExpr of no dimension); data: the flat data of a Constant, the
\* values of a ShapeExpr, the shape argument of a reshape Call; src, n: the
\* step that created the value.
Expr(kind, sinfo, shape, data, src, n) ==
  [kind |-> kind, sinfo |-> sinfo, shape |-> shape, data |-> data,
   src |-> src, n |-> n]

None == Expr("None", "None", <<>>, <<>>, "", 0)

\* the tir.Var("dyn", "int64") that get_info puts for an unknown dimension
Dyn == -1

\* relax.const(array) of the n-th initializer
Const(dims, data, n) == Expr("Constant", "Tensor", dims, data, "initializer", n)

\* testing.nn.Parameter(shape, dtype, name) of the n-th declared input:
\* a Var that also has a visible name (its characters) and a dtype
_new_var(var_name, shape, dtype, n) ==
  [kind |-> "Var", sinfo |-> "Tensor", shape |-> shape, data |-> <<>>,
   src |-> "input", n |-> n, name |-> var_name, dtype |-> dtype]

\* dtype=None
NoneDtype == "None"

\* get_type: TENSOR_TYPE_TO_NP_TYPE for FLOAT (1) and INT64 (7)
get_type(elem_type) == IF elem_type = 1 THEN "float32" ELSE "int64"

\* get_info: the name, the shape and the dtype of a ValueInfoProto; a
\* dimension whose dim_value is unset (0) becomes a fresh symbolic
\* dimension, an unset elem_type (0) gives no dtype
get_info(info_proto) ==
  [name |-> info_proto.name,
   shape |-> [k \in 1..Len(info_proto.dims) |->
                IF info_proto.dims[k] = 0 THEN Dyn ELSE info_proto.dims[k]],
   dtype |-> IF info_proto.elem_type # 0
               THEN get_type(info_proto.elem_type)
               ELSE NoneDtype]

\* ---- the protobuf records the pass reads ----
TensorProtos ==
  {[name |-> "x", dims |-> <<2>>, data |-> <<1, 2>>],
   [name |-> "w.1", dims |-> <<2>>, data |-> <<3, 4>>],
   [name |-> "", dims |-> <<2>>, data |-> <<1, 2>>]}

\* The declared inputs of the model: "x" of a known dimension and of
\* element type FLOAT, "w.1" of an unset dimension and an unset element
\* type, and an input of no name.
ValueInfoProtos ==
  {[name |-> "x", dims |-> <<2>>, elem_type |-> 1],
   [name |-> "w.1", dims |-> <<0>>, elem_type |-> 0],
   [name |-> "", dims |-> <<2>>, elem_type |-> 7]}

NodeOps == {"Add", "Shape", "Reshape", "Foo", "Bar"}

\* The nodes of the model: one or two declared outputs; the output names
\* of a node whose operator is not registered are never read.
NodeProtos ==
  [op_type : {"Add", "Shape", "Reshape"}, output : {<<"x">>, <<"w.1">>}]
    \cup {[op_type |-> "Add", output |-> <<"x", "w.1">>]}
    \cup [op_type : NodeOps \ DOMAIN _get_convert_map, output : {<<"x">>}]

RefNames == {"", "x", "w.1"}

FieldNames ==
  <<"f", "i", "s", "g", "floats", "ints", "strings", "t", "tensors", "graphs">>

AttributeProtos == [name : {"axis"}, fields : {{}, {"i"}}]

OutputNames == {"x", "w.1"}

PassOpsets == {13}

\* What a library call made by a converter (numpy, a relax operator and
\* its normalization) does: it raises, or gives a result whose
\* struct_info.shape is truthy or not.
LibOutcomes ==
  {[ok |-> TRUE, shape |-> TRUE], [ok |-> TRUE, shape |-> FALSE],
   [ok |-> FALSE, shape |-> FALSE]}

\* str.strip() on the tensor names of the model
Strip(name) == IF name \in {"", " "} THEN "" ELSE name

\* ---- onnx_input ----
\* A plausible slip: an index past the end is clamped to the last element.
onnx_input_getitem_clamped(self, item) ==
  IF item < Len(self)
    THEN IF item >= -Len(self)
           THEN [ok |-> TRUE, value |-> PyIndex(self, item)]
           ELSE Raise("IndexError", "list index out of range")
    ELSE [ok |-> TRUE,
          value |-> IF Len(self) > 0 THEN self[Len(self)] ELSE None]

\* onnx_input.__getitem__ for an integer item (0-based)
onnx_input_getitem(self, item) ==
  IF item < Len(self)
    THEN IF item >= -Len(self)
           THEN [ok |-> TRUE, value |-> PyIndex(self, item)]
           ELSE Raise("IndexError", "list index out of range")
    ELSE [ok |-> TRUE, value |-> None]

At(inputs, item) == onnx_input_getitem(inputs, item).value

\* ---- ONNXGraphImporter._parse_attr ----
\* One AttributeProto: the fields are visited in the order of FieldNames.
RECURSIVE parse_attr_fields(_, _, _)
parse_attr_fields(attrs, a, k) ==
  IF k > Len(FieldNames)
    THEN IF a.name \notin DOMAIN attrs
           THEN Raise("ValueError", "Cannot parse attribute")
           ELSE [ok |-> TRUE, attrs |-> attrs]
    ELSE LET f == FieldNames[k]
             set == [n \in DOMAIN attrs \cup {a.name} |->
                       IF n = a.name THEN f ELSE attrs[n]]
         IN IF f \notin a.fields
              THEN parse_attr_fields(attrs, a, k + 1)
              ELSE IF f = "graphs"
                     THEN Raise("NotImplementedError", "Field graphs is not supported")
                     ELSE IF f \in {"floats", "ints", "strings", "tensors"}
                               /\ a.name \in DOMAIN attrs
                            THEN Raise("AssertionError", "Only one type of attr is allowed")
                            ELSE parse_attr_fields(set, a, k + 1)

RECURSIVE parse_attr_from(_, _, _)
parse_attr_from(attrs, attr_proto, j) ==
  IF j > Len(attr_proto)
    THEN [ok |-> TRUE, attrs |-> attrs]
    ELSE LET r == parse_attr_fields(attrs, attr_proto[j], 1)
         IN IF r.ok THEN parse_attr_from(r.attrs, attr_proto, j + 1) ELSE r

_parse_attr(attr_proto) == parse_attr_from(<<>>, attr_proto, 1)

\* ---- operator converters ----
\* What a converter returns.  form "expr": one expression that is not of
\* tuple type (items = <<it>>); "Tuple": a relax.Tuple of items;
\* "tuple_typed": one expression of tuple type with Len(items) fields.
Single(e) == [ok |-> TRUE, form |-> "expr", items |-> <<e>>]

\* A relax operator applied to operands: None is no expression, and the
\* operator itself may reject its operands; shape is the shape its
\* struct_info gets when the normalization can tell one, data the shape
\* argument it was given.
RelaxOp(operands, sinfo, shape, data, lib, idx) ==
  IF (\E i \in 1..Len(operands) : operands[i] = None) \/ ~lib.ok
    THEN Raise("TVMError", "relax")
    ELSE Single(Expr("Call", sinfo, IF lib.shape THEN shape ELSE <<>>, data,
                     "node", idx))

RECURSIVE Product(_)
Product(s) == IF s = <<>> THEN 1 ELSE Head(s) * Product(Tail(s))

\* a.data.numpy() + b.data.numpy() on arrays of the same size, or with one
\* array of a single element
np_add(a, b) ==
  LET big == IF Len(a.shape) >= Len(b.shape) THEN a.shape ELSE b.shape
  IN IF Len(a.data) = Len(b.data)
       THEN [ok |-> TRUE, shape |-> big,
             data |-> [k \in 1..Len(a.data) |-> a.data[k] + b.data[k]]]
       ELSE IF Len(b.data) = 1
              THEN [ok |-> TRUE, shape |-> big,
                    data |-> [k \in 1..Len(a.data) |-> a.data[k] + b.data[1]]]
              ELSE IF Len(a.data) = 1
                     THEN [ok |-> TRUE, shape |-> big,
                           data |-> [k \in 1..Len(b.data) |-> a.data[1] + b.data[k]]]
                     ELSE Raise("ValueError", "operands could not be broadcast")

\* _np.reshape(a, newshape) for a list newshape of positive integers
np_reshape(a, newshape) ==
  IF Product(newshape) = Len(a.data)
    THEN [ok |-> TRUE, shape |-> newshape, data |-> a.data]
    ELSE Raise("ValueError", "cannot reshape array")

\* A numpy computation out on the data of the operands, wrapped by
\* relax.const.
NumpyOp(operands, out, idx) ==
  IF \E i \in 1..Len(operands) : operands[i] = None
    THEN Raise("AttributeError", "data")
    ELSE IF ~out.ok
           THEN out
           ELSE Single(Expr("Constant", "Tensor", out.shape, out.data,
                            "node", idx))

AllConstant(inputs) == \A i \in 1..Len(inputs) : inputs[i].kind = "Constant"

\* A plausible slip: the test for constant operands is missing.
Add_impl_v13_nofold(inputs, attr, lib, idx) ==
  RelaxOp(<<At(inputs, 0), At(inputs, 1)>>, "Tensor", At(inputs, 0).shape,
          <<>>, lib, idx)

Add_impl_v13(inputs, attr, lib, idx) ==
  IF AllConstant(inputs)
    THEN NumpyOp(<<At(inputs, 0), At(inputs, 1)>>,
                 np_add(At(inputs, 0), At(inputs, 1)), idx)
    ELSE RelaxOp(<<At(inputs, 0), At(inputs, 1)>>, "Tensor",
                 At(inputs, 0).shape, <<>>, lib, idx)

\* A plausible slip: the shape is always computed at run time.
Shape_impl_v13_runtime(inputs, attr, lib, idx) ==
  LET data == At(inputs, 0)
  IN IF data.sinfo # "Tensor"
       THEN Raise("AttributeError", "shape")
       ELSE RelaxOp(<<data>>, "Shape", <<>>, <<>>, lib, idx)

Shape_impl_v13(inputs, attr, lib, idx) ==
  LET data == At(inputs, 0)
  IN IF data.sinfo # "Tensor"
       THEN Raise("AttributeError", "shape")
       ELSE IF data.shape = <<>>
              THEN RelaxOp(<<data>>, "Shape", <<>>, <<>>, lib, idx)
              ELSE Single(Expr("ShapeExpr", "Shape", <<>>, data.shape, "node", idx))

Reshape_impl_v13(inputs, attr, lib, idx) ==
  LET data == At(inputs, 0)
      new_shape == At(inputs, 1)
      target == IF new_shape.kind \in {"Constant", "ShapeExpr"}
                  THEN new_shape.data
                  ELSE <<>>
  IN IF data.kind = "Constant" /\ new_shape.kind = "Constant"
       THEN NumpyOp(<<data, new_shape>>, np_reshape(data, new_shape.data), idx)
       ELSE RelaxOp(<<data, new_shape>>, "Tensor", target, target, lib, idx)

\* Exp: the two versions differ in the dtypes _check_type lets through;
\* dtypes are not modelled, so the outcome of its assert is lib.ok.
Exp_impl_v1(inputs, attr, lib, idx) ==
  LET data == At(inputs, 0)
  IN IF data = None
       THEN Raise("AttributeError", "checked_type")
       ELSE IF ~lib.ok
              THEN Raise("AssertionError", "Types are supported only")
              ELSE Single(Expr("Call", "Tensor",
                               IF lib.shape THEN data.shape ELSE <<>>, <<>>,
                               "node", idx))

Exp_impl_v13(inputs, attr, lib, idx) ==
  LET data == At(inputs, 0)
  IN IF data = None
       THEN Raise("AttributeError", "checked_type")
       ELSE IF ~lib.ok
              THEN Raise("AssertionError", "Types are supported only")
              ELSE Single(Expr("Call", "Tensor",
                               IF lib.shape THEN data.shape ELSE <<>>, <<>>,
                               "node", idx))

\* emit_te_with_span(bb, topi_function, ...) on tensor operands: a new Var
\* bound to the call, unless an operand is None or the library refuses
EmitTe(operands, shape, lib, idx) ==
  IF (\E i \in 1..Len(operands) : operands[i] = None) \/ ~lib.ok
    THEN Raise("TVMError", "te")
    ELSE Single(Expr("Var", "Tensor", IF lib.shape THEN shape ELSE <<>>, <<>>,
                     "node", idx))

\* relax.TupleGetItem(op, i) of the node of index idx
TupleGetItem(i, idx) == Expr("TupleGetItem", "Tensor", <<>>, <<i>>, "node", idx)

\* emit_te_with_span for a topi function of n results: a Var of tuple type
EmitTeTuple(operands, n, lib, idx) ==
  IF (\E i \in 1..Len(operands) : operands[i] = None) \/ ~lib.ok \/ n < 1
    THEN Raise("TVMError", "te")
    ELSE [ok |-> TRUE, form |-> "tuple_typed",
          items |-> [j \in 1..n |-> TupleGetItem(j - 1, idx)]]

\* a list with 1 inserted at the position axis (numpy.expand_dims on a shape)
insert_axis(shape, axis) ==
  LET at == IF axis < 0 THEN axis + Len(shape) + 1 ELSE axis
  IN IF at < 0 \/ at > Len(shape)
       THEN Raise("AxisError", "axis is out of bounds")
       ELSE [ok |-> TRUE,
             shape |-> SubSeq(shape, 1, at) \o <<1>>
                         \o SubSeq(shape, at + 1, Len(shape))]

\* for axis in axes: expanded = expand_dims(expanded, axis)
RECURSIVE expand_dims(_, _, _)
expand_dims(shape, axes, j) ==
  IF j > Len(axes)
    THEN [ok |-> TRUE, shape |-> shape]
    ELSE LET r == insert_axis(shape, axes[j])
         IN IF r.ok THEN expand_dims(r.shape, axes, j + 1) ELSE r

Unsqueeze_impl_v13(inputs, attr, lib, idx) ==
  LET data == At(inputs, 0)
      axes == At(inputs, 1)
      expanded == expand_dims(data.shape, axes.data, 1)
  IN IF axes.kind # "Constant"
       THEN Raise("NotImplementedError",
                  "Unsqueeze with dynamic axes is not supported")
       ELSE IF axes.shape = <<>>
              THEN Raise("TypeError", "iteration over a 0-d array")
              ELSE IF data.kind = "Constant"
                     THEN IF ~expanded.ok
                            THEN expanded
                            ELSE Single(Expr("Constant", "Tensor", expanded.shape,
                                             data.data, "node", idx))
                     ELSE IF ~expanded.ok
                            THEN RelaxOp(<<data>>, "Tensor", <<>>, <<>>,
                                         [ok |-> FALSE, shape |-> FALSE], idx)
                            ELSE RelaxOp(<<data>>, "Tensor", expanded.shape, <<>>,
                                         lib, idx)

\* seq[start:stop:step] of Python for the integers start, stop and step
PySlice(seq, start, stop, step) ==
  LET n == Len(seq)
      lo == IF step > 0 THEN 0 ELSE -1
      hi == IF step > 0 THEN n ELSE n - 1
      clamp(v) == IF v < 0
                    THEN IF v + n < lo THEN lo ELSE v + n
                    ELSE IF v > hi THEN hi ELSE v
      first == clamp(start)
      last == clamp(stop)
      count == IF step > 0
                 THEN IF last > first THEN (last - first + step - 1) \div step ELSE 0
                 ELSE IF first > last THEN (first - last - step - 1) \div (-step) ELSE 0
  IN [k \in 1..count |-> seq[first + (k - 1) * step + 1]]

\* Slice: tolist() of a Constant of no dimension is a number, which has no
\* len() and is no list for strided_slice.
Slice_impl_v13(inputs, attr, lib, idx) ==
  LET data == At(inputs, 0)
      starts == At(inputs, 1)
      ends == At(inputs, 2)
      axes == At(inputs, 3)
      steps == At(inputs, 4)
      params == <<starts, ends, axes, steps>>
      step == IF steps = None THEN 1 ELSE steps.data[1]
      len_steps == IF steps # None
                     THEN Len(steps.data)
                     ELSE IF axes # None THEN Len(axes.data) ELSE Len(starts.data)
  IN IF \E k \in 1..4 : params[k].kind \notin {"Constant", "None"}
       THEN Raise("ValueError",
                  "Only constant Slice parameters are currently supported")
       ELSE IF starts = None \/ ends = None
         THEN Raise("AttributeError", "data")
         ELSE IF \E k \in 1..4 : params[k] # None /\ params[k].shape = <<>>
           THEN Raise("TypeError", "object of type 'int' has no len()")
           ELSE IF data.kind = "ShapeExpr"
             THEN IF Dyn \in Range(data.data)
                    THEN Raise("AttributeError", "value")
                    ELSE IF \/ Len(starts.data) # 1
                            \/ Len(ends.data) # 1
                            \/ len_steps # 1
                           THEN Raise("AssertionError", "")
                           ELSE IF step = 0
                                  THEN Raise("ValueError", "slice step cannot be zero")
                                  ELSE LET sliced_values ==
                                             PySlice(data.data, starts.data[1],
                                                     ends.data[1], step)
                                       IN Single(Expr("Constant", "Tensor",
                                                      <<Len(sliced_values)>>,
                                                      sliced_values, "node", idx))
             ELSE RelaxOp(<<data>>, "Tensor", data.shape, <<>>, lib, idx)

\* Pad: the node attributes of the model never name "mode", so pad_mode is
\* "constant".
Pad_impl_v11(inputs, attr, lib, idx) ==
  LET pads == At(inputs, 1)
      value == At(inputs, 2)
  IN IF Len(inputs) = 3 /\ value # None /\ value.kind # "Constant"
       THEN Raise("AttributeError", "data")
       ELSE IF Len(inputs) = 3 /\ value # None /\ Len(value.data) # 1
         THEN Raise("ValueError", "can only convert an array of size 1")
         ELSE IF pads.kind # "Constant"
           THEN Raise("ValueError", "Dynamic pads are not supported yet")
           ELSE IF pads.shape = <<>> \/ Len(pads.data) % 2 # 0
             THEN Raise("ValueError",
                        "array split does not result in an equal division")
             ELSE EmitTe(<<At(inputs, 0)>>, At(inputs, 0).shape, lib, idx)

Tile_impl_v13(inputs, attr, lib, idx) ==
  LET reps == At(inputs, 1)
  IN IF reps.kind # "Constant"
       THEN Raise("ValueError", "Dynamic reps for Tile are supported yet")
       ELSE EmitTe(<<At(inputs, 0)>>, At(inputs, 0).shape, lib, idx)

\* Split: splits.checked_type.ndim is the number of dimensions of the
\* operand; indices has one entry less than the operand, and topi.split
\* gives one result more than indices, or num_outputs results.
Split_impl_v13(inputs, attr, lib, idx) ==
  LET splits == At(inputs, 1)
  IN IF splits # None /\ Len(splits.shape) > 0
       THEN IF splits.kind = "Constant"
              THEN EmitTeTuple(<<At(inputs, 0)>>,
                               IF splits.data = <<>> THEN 1 ELSE Len(splits.data),
                               lib, idx)
              ELSE Raise("ValueError", "Dynamic Split not yet supported")
       ELSE EmitTeTuple(<<At(inputs, 0)>>, attr["tvm_custom"].num_outputs,
                        lib, idx)

\* _np.take(data, indices, axis) on a one-dimensional array
np_take(a, indices) ==
  IF Len(a.shape) # 1
    THEN Raise("AxisError", "axis is out of bounds")
    ELSE IF \E k \in 1..Len(indices.data) :
               indices.data[k] >= Len(a.data) \/ indices.data[k] < -Len(a.data)
           THEN Raise("IndexError", "index is out of bounds")
           ELSE [ok |-> TRUE, shape |-> indices.shape,
                 data |-> [k \in 1..Len(indices.data) |->
                             PyIndex(a.data, indices.data[k])]]

\* A plausible slip: a symbolic dimension is made a constant like a known
\* one.
Gather_impl_v13_symbolic(inputs, attr, lib, idx) ==
  LET data == At(inputs, 0)
      indices == At(inputs, 1)
      np_index == indices.data[1]
  IN IF data.kind = "Constant" /\ indices.kind = "Constant"
       THEN NumpyOp(<<data, indices>>, np_take(data, indices), idx)
       ELSE IF data.kind = "ShapeExpr"
         THEN IF indices.kind # "Constant"
           THEN Raise("AssertionError",
                      "Only constant indices supported for shape gather")
           ELSE IF Len(indices.shape) > 1 /\ Len(indices.data) # 1
             THEN Raise("TypeError", "only size-1 arrays can be converted")
             ELSE IF indices.data = <<>>
               THEN Raise("IndexError", "index 0 is out of bounds")
               ELSE IF np_index >= Len(data.data) \/ np_index < -Len(data.data)
                 THEN Raise("IndexError", "ShapeExpr index out of range")
                 ELSE Single(Expr("Constant", "Tensor", <<>>,
                                  <<PyIndex(data.data, np_index)>>,
                                  "node", idx))
         ELSE EmitTe(<<data, indices>>, <<>>, lib, idx)

Gather_impl_v13(inputs, attr, lib, idx) ==
  LET data == At(inputs, 0)
      indices == At(inputs, 1)
      np_index == indices.data[1]
  IN IF data.kind = "Constant" /\ indices.kind = "Constant"
       THEN NumpyOp(<<data, indices>>, np_take(data, indices), idx)
       ELSE IF data.kind = "ShapeExpr"
         THEN IF indices.kind # "Constant"
           THEN Raise("AssertionError",
                      "Only constant indices supported for shape gather")
           ELSE IF Len(indices.shape) > 1 /\ Len(indices.data) # 1
             THEN Raise("TypeError", "only size-1 arrays can be converted")
             ELSE IF indices.data = <<>>
               THEN Raise("IndexError", "index 0 is out of bounds")
               ELSE IF np_index >= Len(data.data) \/ np_index < -Len(data.data)
                 THEN Raise("IndexError", "ShapeExpr index out of range")
                 ELSE IF PyIndex(data.data, np_index) = Dyn
                   THEN Raise("ValueError", "Need to fix this case")
                   ELSE Single(Expr("Constant", "Tensor", <<>>,
                                    <<PyIndex(data.data, np_index)>>,
                                    "node", idx))
         ELSE EmitTe(<<data, indices>>, <<>>, lib, idx)

\* relax.const(0, dtype="float32") of the node of index idx
placeholder(idx) == Expr("Constant", "Tensor", <<>>, <<0>>, "node", idx)

LayerNormalization_impl_v17(inputs, attr, lib, idx) ==
  LET data == At(inputs, 0)
      scale == At(inputs, 1)
      bias == At(inputs, 2)
      out == RelaxOp(<<data, scale, bias>>, "Tensor", data.shape, <<>>, lib, idx)
  IN IF ~out.ok
       THEN out
       ELSE [ok |-> TRUE, form |-> "Tuple",
             items |-> <<out.items[1], placeholder(idx), placeholder(idx)>>]

\* The _impl_vx that get_converter returned, applied.
op_function(op_name, version, inputs, attr, lib, idx) ==
  CASE op_name = "Add" /\ version = 13 -> Add_impl_v13(inputs, attr, lib, idx)
    [] op_name = "Exp" /\ version = 1 -> Exp_impl_v1(inputs, attr, lib, idx)
    [] op_name = "Exp" /\ version = 13 -> Exp_impl_v13(inputs, attr, lib, idx)
    [] op_name = "Shape" /\ version = 13 -> Shape_impl_v13(inputs, attr, lib, idx)
    [] op_name = "Reshape" /\ version = 13 -> Reshape_impl_v13(inputs, attr, lib, idx)
    [] op_name = "Unsqueeze" /\ version = 13 ->
         Unsqueeze_impl_v13(inputs, attr, lib, idx)
    [] op_name = "Slice" /\ version = 13 -> Slice_impl_v13(inputs, attr, lib, idx)
    [] op_name = "Pad" /\ version = 11 -> Pad_impl_v11(inputs, attr, lib, idx)
    [] op_name = "Tile" /\ version = 13 -> Tile_impl_v13(inputs, attr, lib, idx)
    [] op_name = "Split" /\ version = 13 -> Split_impl_v13(inputs, attr, lib, idx)
    [] op_name = "Gather" /\ version = 13 -> Gather_impl_v13(inputs, attr, lib, idx)
    [] op_name = "LayerNormalization" /\ version = 17 ->
         LayerNormalization_impl_v17(inputs, attr, lib, idx)

\* ONNXGraphImporter._convert_operator
_convert_operator(op_name, idx, inputs, attrs, opset_, lib) ==
  IF op_name \in DOMAIN _get_convert_map
    THEN LET conv == get_converter(op_name, opset_)
         IN IF conv.ok
              THEN op_function(op_name, conv.version, inputs, attrs, lib, idx)
              ELSE conv
    ELSE Raise("NotImplementedError", "Operator not implemented")

\* ---- ONNXGraphImporter ----
\* d[key] = value for a dict
Bind(d, key, value) ==
  [k \in DOMAIN d \cup {key} |-> IF k = key THEN value ELSE d[k]]

\* A plausible slip: a list of pairs that is appended to, not a dict.
DictSet_append(d, key, value) == Append(d, [name |-> key, value |-> value])

\* d[key] = value for a dict whose insertion order is read later
DictSet(d, key, value) ==
  IF \E i \in 1..Len(d) : d[i].name = key
    THEN [i \in 1..Len(d) |->
            IF d[i].name = key THEN [name |-> key, value |-> value] ELSE d[i]]
    ELSE Append(d, [name |-> key, value |-> value])

IsVar(item) == item.value.kind = "Var"

\* param_list of from_onnx
param_list(inputs) == [i \in 1..Len(SelectSeq(inputs, IsVar)) |->
                         SelectSeq(inputs, IsVar)[i].value]

shape_compatible_ops == {"Reshape", "ConstantOfShape", "Gather", "Slice", "Expand"}

\* dtype_dict: one type name, or a dict from input names to type names
DtypeStr(type) == [is_dict |-> FALSE, type |-> type, map |-> <<>>]

DtypeDict(map) == [is_dict |-> TRUE, type |-> "", map |-> map]

\* NameSupply(): no name issued yet
NameSupply == <<>>

NoCall == [op_name |-> "", version |-> 0]

NoError == [kind |-> "", arg |-> "", at |-> "", index |-> 0, ops |-> {}]

NoFunc == [params |-> <<>>, tuple |-> FALSE, items |-> <<>>]

NoQuery == [cls |-> "", opset |-> 0]

NoConverter == Raise("", "")

NoModel == [ir_version |-> 0, opset_import |-> <<>>]

NoAttribute == [name |-> "", fields |-> {}]

NoResult == Raise("", "")

\* An exception leaves from_onnx: the pass is over and returns nothing.
Fail(exc, ops) ==
  /\ pc' = "failed"
  /\ error' = [kind |-> exc.kind, arg |-> exc.arg, at |-> pc,
               index |-> node_index, ops |-> ops]

\* The number of initializers, declared inputs and nodes of the graph.
GraphSize == Len(initializer) + Len(input) + Len(node)

Init ==
  /\ node \in SeqUpTo(NodeProtos, MaxNodes)
  /\ opset \in PassOpsets
  /\ pc = "initializers"
  /\ initializer = <<>>
  /\ input = <<>>
  /\ output = <<>>
  /\ _nodes = <<>>
  /\ _inputs = <<>>
  /\ node_index = 0
  /\ call = NoCall
  /\ num_calls = 0
  /\ error = NoError
  /\ func = NoFunc
  /\ query = NoQuery
  /\ converter = NoConverter
  /\ _shape = <<>>
  /\ warnings = <<>>
  /\ model = NoModel
  /\ opset_arg = 0
  /\ cur_attr = NoAttribute
  /\ attr_map = <<>>
  /\ attr_count = 0
  /\ _dtype = DtypeStr("float32")
  /\ _sanitize = TRUE
  /\ _name_supply = NameSupply
  /\ dtype_dict = DtypeStr("float32")
  /\ sanitize_input_names = TRUE
  /\ issued = <<>>
  /\ onnx_inputs = <<>>
  /\ position = 0
  /\ got = NoResult

\* One iteration of the loop of _parse_graph_initializers.
ParseInitializer ==
  /\ pc = "initializers"
  /\ GraphSize < MaxGraph
  /\ \E init_tensor \in TensorProtos :
       /\ initializer' = Append(initializer, init_tensor)
       /\ IF Strip(init_tensor.name) = ""
            THEN Fail(Raise("ValueError", "Tensor's name is required").exc, {})
                 /\ UNCHANGED _nodes
            ELSE /\ _nodes' = Bind(_nodes, init_tensor.name,
                                   Const(init_tensor.dims, init_tensor.data,
                                         Len(initializer) + 1))
                 /\ UNCHANGED <<pc, error>>
  /\ UNCHANGED <<node, opset, input, output, _inputs, node_index, call,
                 num_calls, func, query, converter,
                 _shape, warnings, caller_vars, attr_vars, config_vars,
                 _name_supply, issued,
                 getitem_vars>>

\* graph.initializer is exhausted.
EndInitializers ==
  /\ pc = "initializers"
  /\ pc' = "inputs"
  /\ UNCHANGED <<node, opset, initializer, input, output, _nodes, _inputs,
                 node_index, call, num_calls, error, func, query, converter,
                 _shape, warnings, caller_vars, attr_vars, config_vars,
                 _name_supply, issued,
                 getitem_vars>>

\* str(i_shape): one token per dimension; a tir.Var prints as its name
str_of_shape(i_shape) ==
  [k \in 1..Len(i_shape) |-> IF i_shape[k] = Dyn THEN "dyn" ELSE "int"]

\* What the lookup of a name in self._shape finds: nothing (<<>>) or the
\* one shape the caller gave for it.
shape_dict_lookups(i_name) == IF i_name = "w.1" THEN {<<>>, <<<<2>>>>} ELSE {<<>>}

\* the dtype _parse_graph_input gives the declared input i
input_dtype(dtype_, i) ==
  IF dtype_.is_dict
    THEN IF i.name \in DOMAIN dtype_.map
           THEN dtype_.map[i.name]
           ELSE get_info(i).dtype
    ELSE get_info(i).dtype

\* ---- names ----
\* The characters of the names of the model, and of the spellings "w_1"
\* and "empty_".
Chars(name) ==
  CASE name = "" -> <<>>
    [] name = "x" -> <<"x">>
    [] name = "w.1" -> <<"w", ".", "1">>
    [] name = "w_1" -> <<"w", "_", "1">>
    [] name = "empty_" -> <<"e", "m", "p", "t", "y", "_">>

\* str.isalpha() on one character of the names of the model
isalpha(c) == c \in {"a", "b", "e", "i", "m", "n", "p", "t", "u", "w", "x", "y"}

\* name.replace(".", "_")
replace_dots(name) ==
  [k \in 1..Len(name) |-> IF name[k] = "." THEN "_" ELSE name[k]]

\* the first name + "_" + c, c counting up, that the supply has not issued
RECURSIVE unique_suffix(_, _, _)
unique_suffix(supply, name, c) ==
  LET candidate == name \o <<"_", ToString(c)>>
  IN IF candidate \in DOMAIN supply
       THEN unique_suffix(supply, name, c + 1)
       ELSE [name |-> candidate, count |-> c]

\* NameSupply.fresh_name: the name itself when it was not issued before,
\* else the name with a numeric suffix that makes it new
fresh_name(supply, name) ==
  IF name \notin DOMAIN supply
    THEN [supply |-> Bind(supply, name, 0), name |-> name]
    ELSE LET u == unique_suffix(supply, name, supply[name] + 1)
         IN [supply |-> Bind(Bind(supply, name, u.count), u.name, 0),
             name |-> u.name]

\* the warning of _sanitize_name when the name was changed
rename_warnings(name, new_name) ==
  IF new_name # name
    THEN <<[category |-> "renaming", arg |-> name]>>
    ELSE <<>>

\* A plausible slip: a name that starts with a digit is not prefixed.
_sanitize_name_noprefix(supply, name) ==
  IF name = <<>>
    THEN LET r == fresh_name(supply, <<"e", "m", "p", "t", "y", "_">>)
         IN [supply |-> r.supply, name |-> r.name, warnings |-> <<>>]
    ELSE LET r == fresh_name(supply, replace_dots(name))
         IN [supply |-> r.supply, name |-> r.name,
             warnings |-> rename_warnings(name, r.name)]

\* ONNXGraphImporter._sanitize_name on the characters of a name: the name
\* supply it leaves, the name it returns and the warnings it emits
_sanitize_name(supply, name) ==
  IF name = <<>>
    THEN LET r == fresh_name(supply, <<"e", "m", "p", "t", "y", "_">>)
         IN [supply |-> r.supply, name |-> r.name, warnings |-> <<>>]
    ELSE LET new_name == replace_dots(name)
             r == IF ~isalpha(new_name[1]) /\ new_name[1] # "_"
                    THEN fresh_name(supply,
                                    <<"i", "n", "p", "u", "t", "_">> \o new_name)
                    ELSE fresh_name(supply, new_name)
         IN [supply |-> r.supply, name |-> r.name,
             warnings |-> rename_warnings(name, r.name)]

\* A plausible slip: the name is never sanitized.
input_var_name_raw(sanitize, supply, i_name) ==
  [supply |-> supply, name |-> Chars(i_name), warnings |-> <<>>]

\* var_name of _parse_graph_input for the input of the name i_name
input_var_name(sanitize, supply, i_name) ==
  IF sanitize
    THEN _sanitize_name(supply, Chars(i_name))
    ELSE [supply |-> supply, name |-> Chars(i_name), warnings |-> <<>>]

\* A plausible slip: the test "if i_name not in self._nodes" is missing.
declare_input_always(env, i, n, found, var_name, dtype) ==
  Bind(env, i.name,
       _new_var(var_name,
                IF found # <<>> THEN found[1] ELSE get_info(i).shape,
                dtype, n))

\* self._nodes after the body of "if i_name not in self._nodes" for the
\* n-th declared input i, found being what self._shape has for its name
declare_input(env, i, n, found, var_name, dtype) ==
  IF i.name \notin DOMAIN env
    THEN Bind(env, i.name,
              _new_var(var_name,
                       IF found # <<>> THEN found[1] ELSE get_info(i).shape,
                       dtype, n))
    ELSE env

\* The warnings of _parse_graph_input for the declared input i.
input_warnings(env, i, found) ==
  IF /\ i.name \notin DOMAIN env
     /\ found = <<>>
     /\ "?" \in Range(str_of_shape(get_info(i).shape))
    THEN <<[category |-> "unknown dimension shapes", arg |-> i.name]>>
    ELSE <<>>

\* One iteration of the loop of _parse_graph_input.
ParseGraphInput ==
  /\ pc = "inputs"
  /\ GraphSize < MaxGraph
  /\ \E i \in ValueInfoProtos :
       \E found \in IF i.name \in DOMAIN _nodes
                      THEN {<<>>}
                      ELSE shape_dict_lookups(i.name) :
         LET named == IF i.name \notin DOMAIN _nodes
                        THEN input_var_name(_sanitize, _name_supply, i.name)
                        ELSE [supply |-> _name_supply, name |-> <<>>,
                              warnings |-> <<>>]
         IN /\ input' = Append(input, i)
            /\ _shape' = IF found # <<>> THEN Bind(_shape, i.name, found[1])
                                          ELSE _shape
            /\ warnings' = warnings \o input_warnings(_nodes, i, found)
                                     \o named.warnings
            /\ _name_supply' = named.supply
            /\ _nodes' = declare_input(_nodes, i, Len(input) + 1, found,
                                       named.name, input_dtype(_dtype, i))
            /\ _inputs' = DictSet(_inputs, i.name, _nodes'[i.name])
  /\ UNCHANGED <<node, opset, pc, initializer, output, node_index, call,
                 num_calls, error, func, query, converter,
                 caller_vars, attr_vars, config_vars, issued,
                 getitem_vars>>

\* graph.input is exhausted.
EndInputs ==
  /\ pc = "inputs"
  /\ pc' = "check"
  /\ UNCHANGED <<node, opset, initializer, input, output, _nodes, _inputs,
                 node_index, call, num_calls, error, func, query, converter,
                 _shape, warnings, caller_vars, attr_vars, config_vars,
                 _name_supply, issued,
                 getitem_vars>>

\* A plausible slip: the scan stops at the first unsupported operator.
unsupported_ops_first ==
  LET bad == {j \in 1..Len(node) :
                node[j].op_type \notin DOMAIN _get_convert_map
                /\ node[j].op_type # "Constant"}
  IN IF bad = {} THEN {} ELSE {node[SetMin(bad)].op_type}

unsupported_ops ==
  {node[k].op_type : k \in {j \in 1..Len(node) :
      node[j].op_type \notin DOMAIN _get_convert_map
      /\ node[j].op_type # "Constant"}}

_check_for_unsupported_ops ==
  /\ pc = "check"
  /\ IF unsupported_ops # {}
       THEN Fail(Raise("OpNotImplemented", "not supported for frontend ONNX").exc,
                 unsupported_ops)
       ELSE /\ pc' = IF Len(node) = 0 THEN "outputs" ELSE "nodes"
            /\ UNCHANGED error
  /\ UNCHANGED <<node, opset, initializer, input, output, _nodes, _inputs,
                 node_index, call, num_calls, func, query, converter,
                 _shape, warnings, caller_vars, attr_vars, config_vars,
                 _name_supply, issued,
                 getitem_vars>>

\* A plausible slip: self._nodes.get(i) instead of self._nodes[i].
node_inputs_get(env, refs) ==
  [ok |-> TRUE,
   inputs |-> [i \in 1..Len(refs) |->
                 IF refs[i] = "" \/ refs[i] \notin DOMAIN env
                   THEN None ELSE env[refs[i]]]]

\* inputs of _construct_nodes: one entry per reference of node.input,
\* None for the empty reference, KeyError for a name self._nodes lacks.
node_inputs(env, refs) ==
  IF \E i \in 1..Len(refs) : refs[i] # "" /\ refs[i] \notin DOMAIN env
    THEN LET first == SetMin({i \in 1..Len(refs) :
                                refs[i] # "" /\ refs[i] \notin DOMAIN env})
         IN Raise("KeyError", refs[first])
    ELSE [ok |-> TRUE,
          inputs |-> [i \in 1..Len(refs) |->
                        IF refs[i] = "" THEN None ELSE env[refs[i]]]]

\* A plausible slip: only the first input is looked at.
refuses_shape_expr_first(op_name, inputs) ==
  /\ Len(inputs) > 0
  /\ inputs[1] # None
  /\ inputs[1].sinfo = "Shape"
  /\ op_name \notin shape_compatible_ops

\* The special handling of shape expressions: whether the node is refused.
refuses_shape_expr(op_name, inputs) ==
  \E i \in 1..Len(inputs) :
     /\ inputs[i] # None
     /\ inputs[i].sinfo = "Shape"
     /\ op_name \notin shape_compatible_ops

\* A plausible slip: op[0] instead of op[i].
BindItems_first(env, outputs, items, j) ==
  [k \in DOMAIN env \cup Range(outputs) |->
     IF k \in Range(outputs) THEN items[1] ELSE env[k]]

\* for k, i in zip(outputs, range(len(outputs))): self._nodes[k] = op[i]
RECURSIVE BindItems(_, _, _, _)
BindItems(env, outputs, items, j) ==
  IF j > Len(outputs)
    THEN env
    ELSE BindItems(Bind(env, outputs[j], items[j]), outputs, items, j + 1)

\* A plausible slip: the number of declared outputs is not checked.
record_outputs_unchecked(env, outputs, op, idx) ==
  LET outputs_num == IF op.form = "expr" THEN 1 ELSE Len(op.items)
  IN IF outputs_num = 1
       THEN IF Len(outputs) = 0
              THEN Raise("IndexError", "list index out of range")
              ELSE [ok |-> TRUE, env |-> Bind(env, outputs[1], op.items[1])]
       ELSE [ok |-> TRUE,
             env |-> BindItems(env, SubSeq(outputs, 1, outputs_num), op.items, 1)]

\* The unpacking of the normalized result op of the node of index idx and
\* the recording of its outputs in the environment env.
record_outputs(env, outputs, op, idx) ==
  LET outputs_num == IF op.form = "expr" THEN 1 ELSE Len(op.items)
      whole == IF op.form = "expr"
                 THEN op.items[1]
                 ELSE Expr("Tuple", "Tuple", <<>>, <<>>, "node", idx)
  IN IF ~(Len(outputs) <= outputs_num)
       THEN Raise("AssertionError", "Missing outputs during conversion")
       ELSE IF outputs_num = 1
              THEN IF Len(outputs) = 0
                     THEN Raise("IndexError", "list index out of range")
                     ELSE [ok |-> TRUE, env |-> Bind(env, outputs[1], whole)]
              ELSE [ok |-> TRUE, env |-> BindItems(env, outputs, op.items, 1)]

\* attr["tvm_custom"] = {"name": ..., "num_outputs": len(outputs)}
with_tvm_custom(attrs, outputs) ==
  Bind(attrs, "tvm_custom", [num_outputs |-> Len(outputs)])

\* The body of the loop of _construct_nodes for the node nd of index idx,
\* from the environment env, given what _parse_attr made of node.attribute:
\* the exception it raises or the environment it leaves, and the converter
\* it invoked.
construct_node(env, nd, idx, refs, attr, opset_, lib) ==
  LET ins == node_inputs(env, refs)
      conv == get_converter(nd.op_type, opset_)
      invoked == nd.op_type \in DOMAIN _get_convert_map /\ conv.ok
      this_call == IF invoked
                     THEN [op_name |-> nd.op_type, version |-> conv.version]
                     ELSE NoCall
      op == _convert_operator(nd.op_type, idx, ins.inputs,
                              with_tvm_custom(attr.attrs, nd.output), opset_, lib)
      rec == record_outputs(env, nd.output, op, idx)
      raised(exc, c) == [ok |-> FALSE, exc |-> exc, call |-> c, env |-> env]
  IN IF ~attr.ok
       THEN raised(attr.exc, NoCall)
       ELSE IF ~ins.ok
         THEN raised(ins.exc, NoCall)
         ELSE IF refuses_shape_expr(nd.op_type, ins.inputs)
           THEN raised(Raise("ValueError", "cannot handle ShapeExpr inputs").exc,
                       NoCall)
           ELSE IF ~op.ok
             THEN raised(op.exc, this_call)
             ELSE IF ~rec.ok
               THEN raised(rec.exc, this_call)
               ELSE [ok |-> TRUE, exc |-> NoConverter.exc, call |-> this_call,
                     env |-> rec.env]

\* What the message of an exception raised in the loop of _construct_nodes
\* is formatted with: no raise there is wrapped, so an exception carries
\* what its own raise statement put into it.  The span that
\* _convert_operator makes of op_name and node_index is given to the
\* expressions a converter creates, and the resolution of the operands, the
\* refusal of shape operands and the check of the outputs are outside of it.
message_fields(exc) ==
  CASE exc.kind = "KeyError" -> {"key"}
    [] exc.arg = "cannot handle ShapeExpr inputs" -> {"node.name"}
    [] exc.arg = "Operator not implemented" -> {"op_name"}
    [] exc.arg = "opset version not implemented" -> {"version", "op_name"}
    [] exc.arg = "Missing outputs during conversion" ->
         {"len(outputs)", "outputs_num", "op_name"}
    [] exc.arg = "Cannot parse attribute" -> {"attribute"}
    [] exc.arg = "Field graphs is not supported" -> {"field"}
    [] OTHER -> {}

\* What the nodes of the model may carry as node.input, and what
\* _parse_attr may make of their node.attribute.
NodeInputs == SeqUpTo(RefNames, MaxRefs)

NodeAttributes == {_parse_attr(a) : a \in SeqUpTo(AttributeProtos, MaxAttrs)}

\* the number of inputs the operators of more than two inputs declare
SliceInputs == 5

LayerNormalizationInputs == 3

\* node.input of a node of the operator op_name: a Slice node names its
\* data and four parameters, a LayerNormalization node its three inputs
NodeInputsOf(op_name) ==
  CASE op_name = "Slice" -> {<<"x">> \o s : s \in [1..(SliceInputs - 1) -> RefNames]}
    [] op_name = "LayerNormalization" ->
         NodeInputs \cup [1..LayerNormalizationInputs -> RefNames]
    [] OTHER -> NodeInputs

\* One iteration of the loop of _construct_nodes.
ConstructNode ==
  /\ pc = "nodes"
  /\ \E r \in {construct_node(_nodes, node[node_index + 1], node_index, refs,
                              attr, opset, lib) :
                 refs \in NodeInputsOf(node[node_index + 1].op_type),
                 attr \in NodeAttributes, lib \in LibOutcomes} :
       /\ call' = r.call
       /\ num_calls' = IF r.call = NoCall THEN num_calls ELSE num_calls + 1
       /\ _nodes' = r.env
       /\ IF r.ok
            THEN /\ node_index' = node_index + 1
                 /\ pc' = IF node_index + 1 = Len(node) THEN "outputs" ELSE "nodes"
                 /\ UNCHANGED error
            ELSE Fail(r.exc, {}) /\ UNCHANGED node_index
  /\ UNCHANGED <<node, opset, initializer, input, output, _inputs, func,
                 query, converter,
                 _shape, warnings, caller_vars, attr_vars, config_vars,
                 _name_supply, issued,
                 getitem_vars>>

\* A plausible slip: the outputs are always packed in a relax.Tuple.
emit_func_output_tuple(env, inputs, outs) ==
  [params |-> param_list(inputs),
   tuple |-> TRUE,
   items |-> [i \in 1..Len(outs) |-> env[outs[i]]]]

\* The function from_onnx emits: outputs[0] or relax.Tuple(outputs), and
\* the parameters.
emit_func_output(env, inputs, outs) ==
  [params |-> param_list(inputs),
   tuple |-> Len(outs) # 1,
   items |-> [i \in 1..Len(outs) |-> env[outs[i]]]]

\* The end of from_onnx: the outputs and the function.
EmitOutputs ==
  /\ pc = "outputs"
  /\ \E outs \in SeqUpTo(OutputNames, MaxOutput) :
       /\ output' = outs
       /\ IF \E i \in 1..Len(outs) : outs[i] \notin DOMAIN _nodes
            THEN LET first == SetMin({i \in 1..Len(outs) :
                                        outs[i] \notin DOMAIN _nodes})
                 IN Fail(Raise("KeyError", outs[first]).exc, {}) /\ UNCHANGED func
            ELSE /\ func' = emit_func_output(_nodes, _inputs, outs)
                 /\ pc' = "done"
                 /\ UNCHANGED error
  /\ UNCHANGED <<node, opset, initializer, input, _nodes, _inputs, node_index,
                 call, num_calls, query, converter,
                 _shape, warnings, caller_vars, attr_vars, config_vars,
                 _name_supply, issued,
                 getitem_vars>>

Next ==
  \/ ParseInitializer
  \/ EndInitializers
  \/ ParseGraphInput
  \/ EndInputs
  \/ _check_for_unsupported_ops
  \/ ConstructNode
  \/ EmitOutputs

Spec == Init /\ [][Next]_vars

\* ---- the module-level from_onnx(model, shape_dict, dtype_dict, opset) ----
\* opset=None of the caller
NoOpset == 0

\* model.opset_import entries: two of the default domain, one of another
OperatorSetIds ==
  {[domain |-> "", version |-> 13],
   [domain |-> "ai.onnx", version |-> 11],
   [domain |-> "com.microsoft", version |-> 17]}

ModelProtos ==
  [ir_version : {2, 3}, opset_import : SeqUpTo(OperatorSetIds, MaxImports)]

OpsetArgs == {NoOpset, 11, 13}

\* dtype_dict: the default, or a dict that names the input "x"
DtypeArgs == {DtypeStr("float32"), DtypeDict([n \in {"x"} |-> "int64"])}

\* the graphs of the models: MaxNodes Exp nodes
ModelNodeProtos == {[op_type |-> "Exp", output |-> <<"w.1">>]}

\* A plausible slip: the comparison is off by one.
ir_version_supported_above(m) == ~(m.ir_version <= 3)

\* the test of model.ir_version
ir_version_supported(m) == ~(m.ir_version < 3)

\* A plausible slip: the loop has no break, the last entry wins.
opset_in_model_last(m) ==
  LET found == {k \in 1..Len(m.opset_import) :
                  m.opset_import[k].domain \in {"ai.onnx", ""}}
  IN IF found = {} THEN 1 ELSE m.opset_import[SetMax(found)].version

\* opset_in_model after the loop over model.opset_import
opset_in_model(m) ==
  LET found == {k \in 1..Len(m.opset_import) :
                  m.opset_import[k].domain \in {"ai.onnx", ""}}
  IN IF found = {} THEN 1 ELSE m.opset_import[SetMin(found)].version

\* A plausible slip: an equal opset is warned about too.
opset_warnings_equal(opset_, in_model) ==
  IF opset_ # NoOpset /\ opset_ <= in_model
    THEN <<[category |-> "lower opset", arg |-> ""]>>
    ELSE <<>>

\* the warning of "elif opset < opset_in_model"
opset_warnings(opset_, in_model) ==
  IF opset_ # NoOpset /\ opset_ < in_model
    THEN <<[category |-> "lower opset", arg |-> ""]>>
    ELSE <<>>

\* onnx.checker.check_model raises or not; its exception is only a warning
checker_warnings(raises) ==
  IF raises THEN <<[category |-> "checker", arg |-> ""]>> ELSE <<>>

\* The module-level from_onnx up to its call of g.from_onnx(graph, opset).
from_onnx ==
  /\ pc = "model"
  /\ IF ~ir_version_supported(model)
       THEN /\ Fail(Raise("ValueError", "Model IR version not supported").exc, {})
            /\ UNCHANGED <<opset, warnings, config_vars>>
       ELSE \E raises \in BOOLEAN :
              /\ warnings' = warnings \o checker_warnings(raises)
                               \o opset_warnings(opset_arg, opset_in_model(model))
              /\ opset' = IF opset_arg = NoOpset
                            THEN opset_in_model(model)
                            ELSE opset_arg
              /\ _dtype' = dtype_dict
              /\ _sanitize' = sanitize_input_names
              /\ pc' = "initializers"
              /\ UNCHANGED error
  /\ UNCHANGED <<node, initializer, input, output, _nodes, _inputs,
                 node_index, call, num_calls, func, query, converter,
                 _shape, caller_vars, attr_vars, _name_supply, issued,
                 getitem_vars>>

InitModel ==
  /\ model \in ModelProtos
  /\ opset_arg \in OpsetArgs
  /\ node \in [1..MaxNodes -> ModelNodeProtos]
  /\ pc = "model"
  /\ opset = NoOpset
  /\ initializer = <<>>
  /\ input = <<>>
  /\ output = <<>>
  /\ _nodes = <<>>
  /\ _inputs = <<>>
  /\ node_index = 0
  /\ call = NoCall
  /\ num_calls = 0
  /\ error = NoError
  /\ func = NoFunc
  /\ query = NoQuery
  /\ converter = NoConverter
  /\ _shape = <<>>
  /\ warnings = <<>>
  /\ cur_attr = NoAttribute
  /\ attr_map = <<>>
  /\ attr_count = 0
  /\ dtype_dict \in DtypeArgs
  /\ sanitize_input_names \in BOOLEAN
  /\ _dtype = DtypeStr("")
  /\ _sanitize = FALSE
  /\ _name_supply = NameSupply
  /\ issued = <<>>
  /\ onnx_inputs = <<>>
  /\ position = 0
  /\ got = NoResult

NextModel ==
  \/ from_onnx
  \/ Next

SpecModel == InitModel /\ [][NextModel]_vars

\* ---- _parse_attr on its own: one AttributeProto at a time ----
\* The AttributeProtos given to the decoder: two names, at most two
\* populated fields.
DecoderAttributeProtos ==
  [name : {"axis", "perm"},
   fields : {fs \in SUBSET Range(FieldNames) : Cardinality(fs) <= 2}]

InitAttr ==
  /\ pc = "attr"
  /\ cur_attr = NoAttribute
  /\ attr_map = <<>>
  /\ attr_count = 0
  /\ node = <<>>
  /\ opset = NoOpset
  /\ initializer = <<>>
  /\ input = <<>>
  /\ output = <<>>
  /\ _nodes = <<>>
  /\ _inputs = <<>>
  /\ node_index = 0
  /\ call = NoCall
  /\ num_calls = 0
  /\ error = NoError
  /\ func = NoFunc
  /\ query = NoQuery
  /\ converter = NoConverter
  /\ _shape = <<>>
  /\ warnings = <<>>
  /\ model = NoModel
  /\ opset_arg = NoOpset
  /\ _dtype = DtypeStr("")
  /\ _sanitize = FALSE
  /\ _name_supply = NameSupply
  /\ dtype_dict = DtypeStr("")
  /\ sanitize_input_names = FALSE
  /\ issued = <<>>
  /\ onnx_inputs = <<>>
  /\ position = 0
  /\ got = NoResult

\* One iteration of "for a in attr_proto".
ParseAttribute ==
  /\ pc = "attr"
  /\ attr_count < MaxAttrs
  /\ \E a \in DecoderAttributeProtos :
       LET r == parse_attr_fields(attr_map, a, 1)
       IN /\ cur_attr' = a
          /\ attr_count' = attr_count + 1
          /\ IF r.ok
               THEN attr_map' = r.attrs /\ UNCHANGED <<pc, error>>
               ELSE Fail(r.exc, {}) /\ UNCHANGED attr_map
  /\ UNCHANGED <<node, opset, initializer, input, output, _nodes, _inputs,
                 node_index, call, num_calls, func, query, converter,
                 _shape, warnings, caller_vars, config_vars, _name_supply,
                 issued, getitem_vars>>

\* attr_proto is exhausted: return attrs
ReturnAttrs ==
  /\ pc = "attr"
  /\ pc' = "decoded"
  /\ UNCHANGED <<node, opset, initializer, input, output, _nodes, _inputs,
                 node_index, call, num_calls, error, func, query, converter,
                 _shape, warnings, caller_vars, attr_vars, config_vars,
                 _name_supply, issued,
                 getitem_vars>>

NextAttr ==
  \/ ParseAttribute
  \/ ReturnAttrs

SpecAttr == InitAttr /\ [][NextAttr]_vars

\* ---- _sanitize_name on its own: one raw name at a time ----
\* The raw names given to the sanitizer: the empty name, two names that
\* differ only by "." and "_", names that start with a digit or a dot, and
\* names that are spelled like a generated or a suffixed name.
RawNames ==
  {<<>>,
   <<"a", ".", "b">>,
   <<"a", "_", "b">>,
   <<"a", "_", "b", "_", "1">>,
   <<"1", "a">>,
   <<".", "a">>,
   <<"e", "m", "p", "t", "y", "_">>,
   <<"i", "n", "p", "u", "t", "_", "1", "a">>}

InitSanitize ==
  /\ pc = "sanitize"
  /\ _sanitize = TRUE
  /\ _name_supply = NameSupply
  /\ issued = <<>>
  /\ warnings = <<>>
  /\ node = <<>>
  /\ opset = 0
  /\ initializer = <<>>
  /\ input = <<>>
  /\ output = <<>>
  /\ _nodes = <<>>
  /\ _inputs = <<>>
  /\ node_index = 0
  /\ call = NoCall
  /\ num_calls = 0
  /\ error = NoError
  /\ func = NoFunc
  /\ query = NoQuery
  /\ converter = NoConverter
  /\ _shape = <<>>
  /\ model = NoModel
  /\ opset_arg = 0
  /\ cur_attr = NoAttribute
  /\ attr_map = <<>>
  /\ attr_count = 0
  /\ _dtype = DtypeStr("")
  /\ dtype_dict = DtypeStr("")
  /\ sanitize_input_names = TRUE
  /\ onnx_inputs = <<>>
  /\ position = 0
  /\ got = NoResult

\* One call of self._sanitize_name(name) of one lowering pass.
SanitizeName ==
  /\ pc = "sanitize"
  /\ Len(issued) < MaxGraph
  /\ \E name \in RawNames :
       LET r == _sanitize_name(_name_supply, name)
       IN /\ _name_supply' = r.supply
          /\ issued' = Append(issued, [raw |-> name, name |-> r.name])
          /\ warnings' = warnings \o r.warnings
  /\ UNCHANGED <<node, opset, pc, initializer, input, output, _nodes, _inputs,
                 node_index, call, num_calls, error, func, query, converter,
                 _shape, caller_vars, attr_vars, config_vars, getitem_vars>>

NextSanitize == SanitizeName

SpecSanitize == InitSanitize /\ [][NextSanitize]_vars

\* ---- the nodes of operators with parameter operands ----
\* The graphs: the declared input "x" of a known first dimension, and at
\* most one tensor of the name "w.1": an initializer of one dimension or
\* of none, or a second declared input of one dimension or of none.
OpsDataProtos ==
  {[name |-> "x", dims |-> <<2, 0>>, elem_type |-> 1],
   [name |-> "x", dims |-> <<2, 3>>, elem_type |-> 1]}

OpsTensorProtos ==
  {[name |-> "w.1", dims |-> <<1>>, data |-> <<0>>],
   [name |-> "w.1", dims |-> <<1>>, data |-> <<1>>],
   [name |-> "w.1", dims |-> <<>>, data |-> <<0>>],
   [name |-> "w.1", dims |-> <<2>>, data |-> <<1, 1>>]}

OpsValueInfoProtos ==
  {[name |-> "w.1", dims |-> <<1>>, elem_type |-> 7],
   [name |-> "w.1", dims |-> <<>>, elem_type |-> 7]}

OpsGraphs ==
  {[initializer |-> <<t>>, input |-> <<d>>] :
     t \in OpsTensorProtos, d \in OpsDataProtos}
    \cup {[initializer |-> <<>>, input |-> <<d, v>>] :
            d \in OpsDataProtos, v \in OpsValueInfoProtos}
    \cup {[initializer |-> <<>>, input |-> <<d>>] : d \in OpsDataProtos}

OpsNodeProtos ==
  [op_type : {"Unsqueeze", "Slice", "Pad", "Tile", "Split", "Gather",
              "LayerNormalization"},
   output : {<<"x">>, <<"x", "w.1">>, <<"x", "w.1", "">>}]

\* a node alone, or after a Shape node that rebinds "x" to its shape
OpsNodeLists ==
  {<<p>> : p \in OpsNodeProtos}
    \cup {<<[op_type |-> "Shape", output |-> <<"x">>], p>> : p \in OpsNodeProtos}

\* self._nodes after _parse_graph_initializers on inits[j..]
RECURSIVE _parse_graph_initializers(_, _, _)
_parse_graph_initializers(env, inits, j) ==
  IF j > Len(inits)
    THEN env
    ELSE _parse_graph_initializers(
           Bind(env, inits[j].name, Const(inits[j].dims, inits[j].data, j)),
           inits, j + 1)

\* self._nodes after _parse_graph_input on ins[j..], names kept as they are
\* and no shape given by the caller
RECURSIVE _parse_graph_input(_, _, _, _)
_parse_graph_input(env, ins, dtype_, j) ==
  IF j > Len(ins)
    THEN env
    ELSE _parse_graph_input(
           declare_input(env, ins[j], j, <<>>,
                         input_var_name(FALSE, NameSupply, ins[j].name).name,
                         input_dtype(dtype_, ins[j])),
           ins, dtype_, j + 1)

\* self._inputs after _parse_graph_input on ins[j..]
RECURSIVE graph_inputs(_, _, _, _)
graph_inputs(inputs, env, ins, j) ==
  IF j > Len(ins)
    THEN inputs
    ELSE graph_inputs(DictSet(inputs, ins[j].name, env[ins[j].name]), env, ins,
                      j + 1)

\* The pass after _parse_graph_initializers and _parse_graph_input, with
\* sanitize_input_names = False.
InitOps ==
  /\ pc = "check"
  /\ node \in OpsNodeLists
  /\ opset \in PassOpsets
  /\ \E g \in OpsGraphs :
       /\ initializer = g.initializer
       /\ input = g.input
       /\ _nodes = _parse_graph_input(
                     _parse_graph_initializers(<<>>, g.initializer, 1),
                     g.input, DtypeStr("float32"), 1)
       /\ _inputs = graph_inputs(<<>>, _nodes, g.input, 1)
  /\ output = <<>>
  /\ node_index = 0
  /\ call = NoCall
  /\ num_calls = 0
  /\ error = NoError
  /\ func = NoFunc
  /\ query = NoQuery
  /\ converter = NoConverter
  /\ _shape = <<>>
  /\ warnings = <<>>
  /\ model = NoModel
  /\ opset_arg = 0
  /\ cur_attr = NoAttribute
  /\ attr_map = <<>>
  /\ attr_count = 0
  /\ _dtype = DtypeStr("float32")
  /\ _sanitize = FALSE
  /\ _name_supply = NameSupply
  /\ dtype_dict = DtypeStr("float32")
  /\ sanitize_input_names = FALSE
  /\ issued = <<>>
  /\ onnx_inputs = <<>>
  /\ position = 0
  /\ got = NoResult

NextOps ==
  \/ _check_for_unsupported_ops
  \/ ConstructNode
  \/ EmitOutputs

SpecOps == InitOps /\ [][NextOps]_vars

\* ---- onnx_input.__getitem__ on its own ----
\* the operands a list holds: no operand, a constant, a parameter, a shape
Operands ==
  {None,
   Const(<<2>>, <<1, 2>>, 1),
   _new_var(<<"x">>, <<2>>, "float32", 1),
   Expr("ShapeExpr", "Shape", <<>>, <<2>>, "node", 0)}

\* the integer indices read: from below -len(self) to past the end
Positions == (-(MaxRefs + 1))..(MaxRefs + 1)

InitGetitem ==
  /\ pc = "getitem"
  /\ onnx_inputs \in SeqUpTo(Operands, MaxRefs)
  /\ position = 0
  /\ got = NoResult
  /\ node = <<>>
  /\ opset = 0
  /\ initializer = <<>>
  /\ input = <<>>
  /\ output = <<>>
  /\ _nodes = <<>>
  /\ _inputs = <<>>
  /\ node_index = 0
  /\ call = NoCall
  /\ num_calls = 0
  /\ error = NoError
  /\ func = NoFunc
  /\ query = NoQuery
  /\ converter = NoConverter
  /\ _shape = <<>>
  /\ warnings = <<>>
  /\ model = NoModel
  /\ opset_arg = 0
  /\ cur_attr = NoAttribute
  /\ attr_map = <<>>
  /\ attr_count = 0
  /\ _dtype = DtypeStr("")
  /\ _sanitize = FALSE
  /\ _name_supply = NameSupply
  /\ dtype_dict = DtypeStr("")
  /\ sanitize_input_names = FALSE
  /\ issued = <<>>

\* inputs[item] for an integer item
Getitem ==
  /\ pc = "getitem"
  /\ \E item \in Positions :
       /\ position' = item
       /\ got' = onnx_input_getitem(onnx_inputs, item)
  /\ pc' = "got"
  /\ UNCHANGED <<node, opset, initializer, input, output, _nodes, _inputs,
                 node_index, call, num_calls, error, func, query, converter,
                 _shape, warnings, caller_vars, attr_vars, config_vars,
                 _name_supply, issued, onnx_inputs>>

NextGetitem == Getitem

SpecGetitem == InitGetitem /\ [][NextGetitem]_vars

\* ---- get_converter on its own: every registered operator, every opset ----
InitConverter ==
  /\ query \in [cls : DOMAIN _get_convert_map, opset : 1..MaxOpset]
  /\ converter = NoConverter
  /\ pc = "query"
  /\ node = <<>>
  /\ opset = 0
  /\ initializer = <<>>
  /\ input = <<>>
  /\ output = <<>>
  /\ _nodes = <<>>
  /\ _inputs = <<>>
  /\ node_index = 0
  /\ call = NoCall
  /\ num_calls = 0
  /\ error = NoError
  /\ func = NoFunc
  /\ _shape = <<>>
  /\ warnings = <<>>
  /\ model = NoModel
  /\ opset_arg = 0
  /\ cur_attr = NoAttribute
  /\ attr_map = <<>>
  /\ attr_count = 0
  /\ _dtype = DtypeStr("")
  /\ _sanitize = FALSE
  /\ _name_supply = NameSupply
  /\ dtype_dict = DtypeStr("")
  /\ sanitize_input_names = FALSE
  /\ issued = <<>>
  /\ onnx_inputs = <<>>
  /\ position = 0
  /\ got = NoResult

GetConverter ==
  /\ pc = "query"
  /\ converter' = get_converter(query.cls, query.opset)
  /\ pc' = "answered"
  /\ UNCHANGED <<node, opset, initializer, input, output, _nodes, _inputs,
                 node_index, call, num_calls, error, func, query,
                 _shape, warnings, caller_vars, attr_vars, config_vars,
                 _name_supply, issued,
                 getitem_vars>>

NextConverter == GetConverter

SpecConverter == InitConverter /\ [][NextConverter]_vars

\* ==== the claims ====

\* C1: for every registered operator and every opset at or above the
\* operator's lowest registered version, get_converter returns the
\* implementation of the largest registered version <= opset; an opset equal
\* to a registered version selects that very version.
C1_LargestVersionAtMostOpset ==
  (pc = "answered"
     /\ query.opset >= SetMin(_get_convert_map[query.cls]))
    => /\ converter.ok
       /\ converter.version \in _get_convert_map[query.cls]
       /\ converter.version <= query.opset
       /\ \A v \in _get_convert_map[query.cls] :
            v <= query.opset => v <= converter.version
       /\ (query.opset \in _get_convert_map[query.cls]
             => converter.version = query.opset)

\* Unsqueeze {11, 13} asked at opset 13 answered with v13.
C1_Witness ==
  /\ pc = "answered"
  /\ query = [cls |-> "Unsqueeze", opset |-> 13]
  /\ converter.ok
  /\ converter.version = 13

\* C2: for every registered operator, an opset strictly below every
\* registered version makes get_converter fail (no converter is returned).
C2_BelowLowestVersionFails ==
  (pc = "answered"
     /\ query.opset < SetMin(_get_convert_map[query.cls]))
    => ~converter.ok

\* ---- what the graph declares ----
InitNames == {initializer[i].name : i \in 1..Len(initializer)}

InputNames == {input[i].name : i \in 1..Len(input)}

\* the output names of the nodes declared before the node of index k
OutputsBefore(k) ==
  UNION {Range(node[j].output) : j \in {i \in 1..Len(node) : i <= k}}

\* the operator names of the graph that the registry lacks
UnregisteredOps ==
  {node[k].op_type : k \in 1..Len(node)} \ DOMAIN _get_convert_map

\* C3: when the node list has operator names absent from the registry, the
\* pass (once the initializers and inputs are bound) fails with one
\* unsupported-operator error listing exactly those names, before any node is
\* converted: no converter is invoked, no node output is bound, and no
\* per-node failure is ever reported instead.
C3_UnsupportedOpsReportedFirst ==
  UnregisteredOps # {}
    => /\ num_calls = 0
       /\ call = NoCall
       /\ node_index = 0
       /\ DOMAIN _nodes \subseteq InitNames \cup InputNames
       /\ pc \in {"initializers", "inputs", "check", "failed"}
       /\ pc = "failed" => error.at \in {"initializers", "check"}
       /\ (pc = "failed" /\ error.at = "check")
            => /\ error.kind = "OpNotImplemented"
               /\ error.ops = UnregisteredOps

\* Two distinct unsupported operators are reported together.
C3_Witness ==
  /\ pc = "failed"
  /\ error.kind = "OpNotImplemented"
  /\ error.ops = {"Foo", "Bar"}
  /\ _nodes # <<>>

\* C4: once a name is bound in the environment its value is never replaced
\* for the rest of the pass.
C4_BoundValueNeverReplaced ==
  [][\A n \in DOMAIN _nodes : n \in DOMAIN _nodes' /\ _nodes'[n] = _nodes[n]]_vars

\* C5: recording a node output under a name that is already bound ends the
\* pass with an error.
C5_RebindingIsFatal ==
  [][(pc = "nodes"
        /\ \E j \in 1..Len(node[node_index + 1].output) :
              node[node_index + 1].output[j] \in DOMAIN _nodes)
       => pc' = "failed"]_vars

\* C6: nodes are converted in declaration order: at node k, whatever its
\* attributes, a non-empty input reference that is neither an initializer, a
\* declared input nor an output of a node declared before k fails the pass
\* at node k (a KeyError for the first such name unless the attributes failed
\* first), with no converter invoked and nothing bound; a failed pass
\* converts no further node.
C6_UnboundReferenceFailsAtNode ==
  /\ pc = "nodes"
       => \A refs \in NodeInputs, attr \in NodeAttributes, lib \in LibOutcomes :
            LET known == InitNames \cup InputNames \cup OutputsBefore(node_index)
                missing == {i \in 1..Len(refs) : refs[i] # "" /\ refs[i] \notin known}
                r == construct_node(_nodes, node[node_index + 1], node_index,
                                    refs, attr, opset, lib)
            IN missing # {}
                 => /\ ~r.ok
                    /\ r.call = NoCall
                    /\ r.env = _nodes
                    /\ attr.ok => r.exc = Raise("KeyError", refs[SetMin(missing)]).exc
  /\ (pc = "failed" /\ error.at = "nodes")
       => /\ error.index = node_index
          /\ node_index < Len(node)
          /\ ~ENABLED Next
          /\ error.kind = "KeyError"
               => error.arg \notin InitNames \cup InputNames \cup OutputsBefore(node_index)

\* The first node fails on a name that only the second node produces.
C6_Witness ==
  /\ pc = "failed"
  /\ error.kind = "KeyError"
  /\ error.at = "nodes"
  /\ error.index = 0
  /\ Len(node) = 2
  /\ node[2].output = <<error.arg>>
  /\ node[2].op_type \in DOMAIN _get_convert_map

C7_ShapeAwareOps == {"Reshape", "ConstantOfShape", "Gather", "Slice", "Expand"}

FirstSeen ==
  {i \in 1..Len(input) :
     /\ input[i].name \notin InitNames
     /\ \A j \in 1..(i - 1) : input[j].name # input[i].name}

\* C8: a declared input whose name is also the name of an initializer makes
\* no parameter: the name stays bound to the initializer's Constant (until a
\* node records an output), and neither the parameters collected so far nor
\* those of the function hold a parameter of that name.
C8_InitializerInputIsNoParameter ==
  /\ \A k \in 1..Len(param_list(_inputs)) :
       input[param_list(_inputs)[k].n].name \notin InitNames
  /\ pc = "done"
       => \A k \in 1..Len(func.params) : input[func.params[k].n].name \notin InitNames
  /\ node_index = 0
       => \A i \in 1..Len(input) :
            input[i].name \in InitNames
              => \E j \in 1..Len(initializer) :
                   /\ initializer[j].name = input[i].name
                   /\ _nodes[input[i].name]
                        = Const(initializer[j].dims, initializer[j].data, j)

\* A pass succeeds on a graph that declares an initializer as an input.
C8_Witness ==
  /\ pc = "done"
  /\ InputNames \cap InitNames # {}
  /\ func.params = <<>>

\* the parameter list is the FirstSeen inputs in declaration order
ParamsInFirstSeenOrder(params) ==
  /\ Len(params) = Cardinality(FirstSeen)
  /\ \A k \in 1..Len(params) :
       /\ params[k].kind = "Var"
       /\ params[k].src = "input"
       /\ params[k].n \in FirstSeen
       /\ k < Len(params) => params[k].n < params[k + 1].n

\* C9: the parameters of the function are exactly the declared inputs that
\* are not initializers, one per distinct name, in the order the names first
\* appear; converting nodes does not change them.
C9_ParametersAreDeclaredInputs ==
  /\ ParamsInFirstSeenOrder(param_list(_inputs))
  /\ pc = "done" => /\ ParamsInFirstSeenOrder(func.params)
                    /\ node_index = Len(node)

\* Two declared inputs and a converted node give two parameters in order.
C9_Witness ==
  /\ pc = "done"
  /\ num_calls = 1
  /\ Len(func.params) = 2
  /\ func.params[1].n = 1
  /\ func.params[2].n = 2

\* C10: after all nodes are converted the function returns the value bound
\* to the single declared output, or else the tuple of the values bound to
\* the declared outputs in order; an unbound declared output fails the pass.
C10_ReturnValueIsDeclaredOutputs ==
  /\ pc = "done"
       => /\ node_index = Len(node)
          /\ func.tuple = (Len(output) # 1)
          /\ Len(func.items) = Len(output)
          /\ \A i \in 1..Len(output) :
               output[i] \in DOMAIN _nodes /\ func.items[i] = _nodes[output[i]]
  /\ (\E i \in 1..Len(output) : output[i] \notin DOMAIN _nodes)
       => /\ pc = "failed"
          /\ error.kind = "KeyError"
          /\ error.at = "outputs"
          /\ func = NoFunc

\* Two declared outputs bound to different values are returned as a pair.
C10_Witness ==
  /\ pc = "done"
  /\ Len(output) = 2
  /\ func.tuple
  /\ func.items[1] # func.items[2]

\* the names of refs all resolve: each is empty or bound
Resolves(refs) ==
  \A i \in 1..Len(refs) : refs[i] = "" \/ refs[i] \in DOMAIN _nodes

\* the node _construct_nodes is at
ThisNode == node[node_index + 1]

\* C11: when the converter of a node succeeds and its normalized result has
\* fewer outputs than the node declares, the pass fails at that node with
\* the missing-outputs assertion and the environment is left as it was: no
\* output name of the node is bound by it.
C11_OutputArityMismatchFails ==
  /\ pc = "nodes"
       => \A refs \in NodeInputs, attr \in NodeAttributes, lib \in LibOutcomes :
            LET ins == node_inputs(_nodes, refs)
                op == _convert_operator(ThisNode.op_type, node_index, ins.inputs,
                                        with_tvm_custom(attr.attrs,
                                                        ThisNode.output),
                                        opset, lib)
                provided == IF op.form = "expr" THEN 1 ELSE Len(op.items)
                r == construct_node(_nodes, ThisNode, node_index, refs, attr,
                                    opset, lib)
            IN (/\ attr.ok
                /\ ins.ok
                /\ ~refuses_shape_expr(ThisNode.op_type, ins.inputs)
                /\ op.ok
                /\ Len(ThisNode.output) > provided)
                 => /\ ~r.ok
                    /\ r.exc = Raise("AssertionError",
                                     "Missing outputs during conversion").exc
                    /\ r.env = _nodes
  /\ (pc = "failed" /\ error.arg = "Missing outputs during conversion")
       => /\ error.kind = "AssertionError"
          /\ error.at = "nodes"
          /\ error.index = node_index
          /\ Len(ThisNode.output) > 1
          /\ call.op_name = ThisNode.op_type
          /\ \A j \in 1..Len(ThisNode.output) :
               ThisNode.output[j] \in DOMAIN _nodes
                 => ~(/\ _nodes[ThisNode.output[j]].src = "node"
                      /\ _nodes[ThisNode.output[j]].n = node_index)

\* The second node declares two outputs, its converter gives one value.
C11_Witness ==
  /\ pc = "failed"
  /\ error.kind = "AssertionError"
  /\ error.arg = "Missing outputs during conversion"
  /\ error.index = 1
  /\ num_calls = 2
  /\ Len(ThisNode.output) = 2

C13_ShapeOfStaticTensorFeedsReshape ==
  /\ (pc = "nodes" /\ ThisNode.op_type = "Shape" /\ Len(ThisNode.output) = 1)
       => \A refs \in NodeInputs, attr \in NodeAttributes, lib \in LibOutcomes :
            LET out == ThisNode.output[1]
                r == construct_node(_nodes, ThisNode, node_index, refs, attr,
                                    opset, lib)
            IN (/\ attr.ok
                /\ Len(refs) >= 1
                /\ Resolves(refs)
                /\ refs[1] # ""
                /\ \A i \in 1..Len(refs) :
                     refs[i] # "" => _nodes[refs[i]].sinfo = "Tensor"
                /\ _nodes[refs[1]].shape # <<>>)
                 => /\ r.ok
                    /\ r.env[out].kind = "ShapeExpr"
                    /\ r.env[out].sinfo = "Shape"
                    /\ r.env[out].data = _nodes[refs[1]].shape
  /\ (pc = "nodes" /\ ThisNode.op_type = "Reshape" /\ Len(ThisNode.output) = 1)
       => \A refs \in NodeInputs, attr \in NodeAttributes, lib \in LibOutcomes :
            LET out == ThisNode.output[1]
                r == construct_node(_nodes, ThisNode, node_index, refs, attr,
                                    opset, lib)
            IN (/\ attr.ok
                /\ Len(refs) >= 2
                /\ Resolves(refs)
                /\ refs[1] # ""
                /\ refs[2] # ""
                /\ _nodes[refs[1]].sinfo = "Tensor"
                /\ _nodes[refs[2]].kind = "ShapeExpr")
                 => /\ r.call.op_name = "Reshape"
                    /\ r.exc.arg # "cannot handle ShapeExpr inputs"
                    /\ r.ok = lib.ok
                    /\ r.ok => /\ r.env[out].kind = "Call"
                               /\ r.env[out].sinfo = "Tensor"
                               /\ r.env[out].data = _nodes[refs[2]].data
                               /\ r.env[out].shape \in {<<>>, _nodes[refs[2]].data}

\* Shape of the declared input x gives the ShapeExpr w.1 = (2), and Reshape
\* binds x to the reshape to (2).
C13_Witness ==
  /\ pc = "done"
  /\ Len(node) = 2
  /\ node[1] = [op_type |-> "Shape", output |-> <<"w.1">>]
  /\ node[2] = [op_type |-> "Reshape", output |-> <<"x">>]
  /\ Len(input) = 1
  /\ _nodes["w.1"].kind = "ShapeExpr"
  /\ _nodes["w.1"].data = <<2>>
  /\ _nodes["x"].kind = "Call"
  /\ _nodes["x"].data = <<2>>

\* C14: a declared input that makes a parameter emits exactly one
\* unknown-dimension warning naming it when it has an unset dimension and
\* shape_dict has no entry for it, and none when shape_dict has an entry for
\* it or all its dimensions are known.
C14_UnknownDimensionWarnsOnce ==
  \A name \in InputNames \ InitNames :
    LET unknown == \E i \in 1..Len(input) :
                      input[i].name = name /\ 0 \in Range(input[i].dims)
        emitted == {k \in 1..Len(warnings) :
                      warnings[k] = [category |-> "unknown dimension shapes",
                                     arg |-> name]}
    IN Cardinality(emitted) = IF unknown /\ name \notin DOMAIN _shape THEN 1 ELSE 0

\* the module-level from_onnx has handed the graph to the importer
PassStarted == pc # "model" /\ ~(pc = "failed" /\ error.at = "model")

\* the entries of the default operator domain among model.opset_import
DefaultDomainImports ==
  {k \in 1..Len(model.opset_import) :
     model.opset_import[k].domain \in {"", "ai.onnx"}}

\* the version the model declares for the default domain, 1 without one
DeclaredOpset ==
  IF DefaultDomainImports = {}
    THEN 1
    ELSE model.opset_import[SetMin(DefaultDomainImports)].version

\* C15: without an opset argument the opset of the pass is the version of
\* the first opset import of the default domain ("" or "ai.onnx"), 1 when
\* there is none, whatever the other domains import; and every converter
\* invoked during the pass is the one get_converter selects for that opset.
C15_OpsetDetectedFromDefaultDomain ==
  (PassStarted /\ opset_arg = NoOpset)
    => /\ opset = DeclaredOpset
       /\ call # NoCall
            => /\ get_converter(call.op_name, DeclaredOpset).ok
               /\ call.version = get_converter(call.op_name, DeclaredOpset).version

\* An import of another domain comes first; both nodes are converted at the
\* version declared for the default domain.
C15_Witness ==
  /\ pc = "done"
  /\ opset_arg = NoOpset
  /\ model.opset_import = <<[domain |-> "com.microsoft", version |-> 17],
                            [domain |-> "ai.onnx", version |-> 11]>>
  /\ opset = 11
  /\ num_calls = Len(node)
  /\ call = [op_name |-> "Exp", version |-> 1]

\* the warnings about an opset argument below the declared opset
LowerOpsetWarnings ==
  {k \in 1..Len(warnings) : warnings[k].category = "lower opset"}

\* C16: an opset argument lower than the declared default-domain opset does
\* not fail the conversion: exactly one lower-opset warning is emitted and
\* the requested opset is the opset of the pass and selects every converter;
\* an opset argument equal to or above the declared one, or none, emits no
\* such warning.
C16_LowerOpsetOnlyWarns ==
  /\ (pc = "failed" /\ error.at = "model") => model.ir_version < 3
  /\ PassStarted
       => /\ Cardinality(LowerOpsetWarnings)
               = IF opset_arg # NoOpset /\ opset_arg < DeclaredOpset THEN 1 ELSE 0
          /\ opset_arg # NoOpset
               => /\ opset = opset_arg
                  /\ call # NoCall
                       => call.version = get_converter(call.op_name, opset_arg).version

\* Opset 11 is requested of a model that declares 13: one warning, and the
\* pass runs to its end at opset 11.
C16_Witness ==
  /\ pc = "done"
  /\ opset_arg = 11
  /\ DeclaredOpset = 13
  /\ opset = 11
  /\ Cardinality(LowerOpsetWarnings) = 1
  /\ num_calls = Len(node)
  /\ call.version = 1

\* C17: a model whose ir_version is below 3 fails in the module-level
\* from_onnx before anything of the graph is read: no initializer, input or
\* node is processed, the environment stays empty, no warning is emitted
\* and no function is returned; with ir_version >= 3 that failure never
\* happens.
C17_OldIrVersionFailsFirst ==
  /\ model.ir_version < 3
       => /\ pc \in {"model", "failed"}
          /\ pc = "failed" => error.at = "model" /\ error.kind = "ValueError"
          /\ initializer = <<>>
          /\ input = <<>>
          /\ _nodes = <<>>
          /\ _inputs = <<>>
          /\ node_index = 0
          /\ num_calls = 0
          /\ warnings = <<>>
          /\ func = NoFunc
  /\ model.ir_version >= 3 => ~(pc = "failed" /\ error.at = "model")

\* A model of IR version 2 with nodes in its graph has failed.
C17_Witness ==
  /\ pc = "failed"
  /\ error.at = "model"
  /\ error.kind = "ValueError"
  /\ model.ir_version = 2
  /\ Len(node) > 0
  /\ _nodes = <<>>

\* the value fields of an AttributeProto that the decoder stores
ValueKindFields ==
  {"f", "i", "s", "g", "t", "floats", "ints", "strings", "tensors"}

\* C18: an attribute record none of whose value fields (f, i, s, g, t,
\* floats, ints, strings, tensors) is populated makes the decoding fail
\* (with the cannot-parse ValueError unless its graphs field is
\* populated), whatever records were decoded before it.
C18_EmptyAttributeFails ==
  (attr_count > 0 /\ cur_attr.fields \cap ValueKindFields = {})
    => /\ pc = "failed"
       /\ "graphs" \notin cur_attr.fields => error.kind = "ValueError"

\* C19: an attribute record with more than one populated value field makes
\* the decoding fail; the decoder never keeps one of the populated kinds.
C19_MultiKindAttributeRejected ==
  (attr_count > 0 /\ Cardinality(cur_attr.fields \cap ValueKindFields) > 1)
    => pc = "failed"

\* C20: an attribute record whose field g or whose field graphs is populated
\* makes the decoding fail, and the decoded map never holds a sub-graph.
C20_SubgraphAttributeRejected ==
  /\ (attr_count > 0 /\ cur_attr.fields \cap {"g", "graphs"} # {})
       => pc = "failed"
  /\ \A n \in DOMAIN attr_map : attr_map[n] # "g"

\* C21: with sanitization enabled, whatever raw names one pass asks the
\* sanitizer for and in whatever order, every name it returns is non-empty,
\* starts with a letter or an underscore, and differs from every name it
\* returned before in that pass; so "a.b" and "a_b", and repeated empty
\* names, get distinct names.
C21_SanitizedNamesValidAndUnique ==
  pc = "sanitize"
    => \A k \in 1..Len(issued) :
         /\ issued[k].name # <<>>
         /\ isalpha(issued[k].name[1]) \/ issued[k].name[1] = "_"
         /\ \A j \in 1..(k - 1) : issued[j].name # issued[k].name

\* "a.b", then "a_b", then "a.b" again were given three different names.
C21_Witness ==
  /\ pc = "sanitize"
  /\ Len(issued) = 3
  /\ issued[1].raw = <<"a", ".", "b">>
  /\ issued[2].raw = <<"a", "_", "b">>
  /\ issued[3].raw = <<"a", ".", "b">>
  /\ issued[1].name = <<"a", "_", "b">>
  /\ issued[2].name # issued[1].name
  /\ issued[3].name \notin {issued[1].name, issued[2].name}

\* C22: the parameter made for a declared input has the element type the
\* caller's override gives it: with a single type, that type when the
\* declared element type is unset (the declared one otherwise); with a
\* per-name map, the mapped type when the map names the input and the
\* declared type otherwise.
C22_DtypeOverrideApplied ==
  \A k \in 1..Len(_inputs) :
    IsVar(_inputs[k])
      => LET v == _inputs[k].value
             i == input[v.n]
         IN IF _dtype.is_dict
              THEN v.dtype = IF i.name \in DOMAIN _dtype.map
                               THEN _dtype.map[i.name]
                               ELSE get_info(i).dtype
              ELSE v.dtype = IF i.elem_type = 0
                               THEN _dtype.type
                               ELSE get_info(i).dtype

\* What the module-level from_onnx returns when the pass is done: the
\* value of g.from_onnx(graph, opset), that is relax_mod and nothing else.
from_onnx_returns == <<func>>

\* C23: a successful call of the module-level from_onnx returns two values,
\* the function and a mapping from names to tensors whose keys are exactly
\* the initializer names and whose values are the initializers' tensors.
C23_ReturnsInitializerMapping ==
  (PassStarted /\ pc = "done")
    => /\ Len(from_onnx_returns) = 2
       /\ from_onnx_returns[1] = func
       /\ DOMAIN from_onnx_returns[2] = InitNames
       /\ \A n \in InitNames :
            \E j \in 1..Len(initializer) :
               /\ initializer[j].name = n
               /\ from_onnx_returns[2][n] = initializer[j].data

\* C24: the operand list handed to the converter has one entry per input
\* reference of the node, in order: None at exactly the positions of the
\* empty references and the value bound to the name at the others, so the
\* operands after an empty reference keep their positions; None is never a
\* value of the environment, not even when a declared input is named by the
\* empty string (a Shape node of tensor operands whose first reference is
\* empty or missing fails for want of an operand); a position past the end
\* of the list reads as None.
C24_EmptyReferenceIsAbsentOperand ==
  /\ \A n \in DOMAIN _nodes : _nodes[n] # None
  /\ pc = "nodes"
       => \A refs \in NodeInputs :
            LET ins == node_inputs(_nodes, refs)
            IN ins.ok
                 => /\ Len(ins.inputs) = Len(refs)
                    /\ \A i \in 1..Len(refs) :
                         /\ refs[i] = "" <=> ins.inputs[i] = None
                         /\ refs[i] # "" => ins.inputs[i] = _nodes[refs[i]]
                         /\ onnx_input_getitem(ins.inputs, i - 1)
                              = [ok |-> TRUE, value |-> ins.inputs[i]]
                    /\ \A past \in Len(refs)..(MaxRefs + 1) :
                         onnx_input_getitem(ins.inputs, past)
                           = [ok |-> TRUE, value |-> None]
  /\ (pc = "nodes" /\ ThisNode.op_type = "Shape")
       => \A refs \in NodeInputs, attr \in NodeAttributes, lib \in LibOutcomes :
            LET r == construct_node(_nodes, ThisNode, node_index, refs, attr,
                                    opset, lib)
            IN (/\ attr.ok
                /\ Resolves(refs)
                /\ \A i \in 1..Len(refs) :
                     refs[i] # "" => _nodes[refs[i]].sinfo = "Tensor"
                /\ refs = <<>> \/ refs[1] = "")
                 => /\ ~r.ok
                    /\ r.exc = Raise("AttributeError", "shape").exc
                    /\ r.env = _nodes

\* A declared input is named by the empty string, and a Shape node still
\* found no operand.
C24_Witness ==
  /\ pc = "failed"
  /\ error.at = "nodes"
  /\ error.kind = "AttributeError"
  /\ error.arg = "shape"
  /\ "" \in DOMAIN _nodes
  /\ _nodes[""].kind = "Var"
  /\ _nodes[""].sinfo = "Tensor"

\* C25: an Unsqueeze node whose axes, a Slice node one of whose starts,
\* ends, axes and steps, a Pad node whose pads, a Tile node whose reps and a
\* Split node whose split operand is bound to a value that is not a
\* Constant fails at that node and binds nothing; with a tensor as data,
\* well-formed Constant parameters and a library that accepts the operands
\* the same nodes succeed and bind their outputs.
C25_DynamicParametersRejected ==
  (pc = "nodes"
   /\ ThisNode.op_type \in {"Unsqueeze", "Slice", "Pad", "Tile", "Split"})
    => \A refs \in NodeInputsOf(ThisNode.op_type), attr \in NodeAttributes,
          lib \in LibOutcomes :
         LET ins == node_inputs(_nodes, refs)
             r == construct_node(_nodes, ThisNode, node_index, refs, attr,
                                 opset, lib)
             positions == IF ThisNode.op_type = "Slice"
                            THEN 2..SliceInputs ELSE {2}
             given == positions \cap 1..Len(refs)
             dynamic == \E k \in given :
                          /\ ins.inputs[k] # None
                          /\ ins.inputs[k].kind # "Constant"
             constant(k) == /\ k \in given
                            /\ ins.inputs[k].kind = "Constant"
                            /\ ins.inputs[k].shape # <<>>
             absent(k) == k \notin given \/ ins.inputs[k] = None
             well_formed ==
               CASE ThisNode.op_type = "Slice" ->
                      /\ constant(2)
                      /\ constant(3)
                      /\ constant(4) \/ absent(4)
                      /\ constant(5) \/ absent(5)
                      /\ Len(ThisNode.output) = 1
                 [] ThisNode.op_type = "Pad" ->
                      /\ constant(2)
                      /\ Len(ins.inputs[2].data) % 2 = 0
                      /\ absent(3)
                      /\ Len(ThisNode.output) = 1
                 [] ThisNode.op_type = "Split" ->
                      /\ constant(2)
                      /\ Len(ThisNode.output) <= Len(ins.inputs[2].data)
                 [] OTHER ->
                      /\ constant(2)
                      /\ Len(ThisNode.output) = 1
         IN /\ (ins.ok /\ dynamic) => (~r.ok /\ r.env = _nodes)
            /\ (/\ attr.ok
                /\ ins.ok
                /\ lib.ok
                /\ Len(refs) > 0
                /\ ins.inputs[1].kind = "Var"
                /\ well_formed)
                 => /\ r.ok
                    /\ \A j \in 1..Len(ThisNode.output) :
                         /\ r.env[ThisNode.output[j]].src = "node"
                         /\ r.env[ThisNode.output[j]].n = node_index

\* C27: when the normalized result of a converter has n > 1 elements and
\* the node declares m outputs, 1 <= m <= n, the node succeeds, the j-th
\* declared name is bound to the j-th element for each of the m names and no
\* other name of the environment is bound or changed, so the other n - m
\* elements get no name; LayerNormalization gives three elements, the first
\* of them the layer_norm call.  When the result has one element the first
\* declared name is bound to the result as a whole.
C27_OutputsBoundPositionally ==
  pc = "nodes"
    => \A refs \in NodeInputsOf(ThisNode.op_type), attr \in NodeAttributes,
          lib \in LibOutcomes :
         LET ins == node_inputs(_nodes, refs)
             op == _convert_operator(ThisNode.op_type, node_index, ins.inputs,
                                     with_tvm_custom(attr.attrs, ThisNode.output),
                                     opset, lib)
             n == IF op.form = "expr" THEN 1 ELSE Len(op.items)
             m == Len(ThisNode.output)
             r == construct_node(_nodes, ThisNode, node_index, refs, attr,
                                 opset, lib)
         IN (/\ attr.ok
             /\ ins.ok
             /\ ~refuses_shape_expr(ThisNode.op_type, ins.inputs)
             /\ op.ok)
              => /\ ThisNode.op_type = "LayerNormalization"
                      => /\ n = 3
                         /\ op.items[1].kind = "Call"
                 /\ (n > 1 /\ 1 <= m /\ m <= n)
                      => /\ r.ok
                         /\ \A j \in 1..m : r.env[ThisNode.output[j]] = op.items[j]
                         /\ DOMAIN r.env = DOMAIN _nodes \cup Range(ThisNode.output)
                         /\ \A k \in DOMAIN _nodes \ Range(ThisNode.output) :
                              r.env[k] = _nodes[k]
                 /\ (n = 1 /\ m = 1)
                      => /\ r.ok
                         /\ op.form = "expr"
                              => r.env[ThisNode.output[1]] = op.items[1]
                         /\ op.form # "expr"
                              => /\ r.env[ThisNode.output[1]].kind = "Tuple"
                                 /\ r.env[ThisNode.output[1]].n = node_index
                         /\ DOMAIN r.env = DOMAIN _nodes \cup Range(ThisNode.output)
                         /\ \A k \in DOMAIN _nodes \ Range(ThisNode.output) :
                              r.env[k] = _nodes[k]

\* A LayerNormalization node of one declared output was lowered: its name
\* is bound to the layer_norm call, no name to a placeholder.
C27_Witness ==
  /\ pc = "done"
  /\ Len(node) = 1
  /\ node[1] = [op_type |-> "LayerNormalization", output |-> <<"x">>]
  /\ _nodes["x"].kind = "Call"
  /\ _nodes["x"].src = "node"
  /\ \A k \in DOMAIN _nodes : _nodes[k] # placeholder(0)
  /\ func.items = <<_nodes["x"]>>

\* C29: a Gather node whose data operand is a ShapeExpr and whose index is
\* a Constant of no dimension or of one element, k, within the shape, binds
\* its output to a Constant holding the k-th dimension when that dimension is
\* a known integer, and no call is emitted; when the k-th dimension is
\* symbolic, or when the index is bound to a value that is not a Constant,
\* the node fails and binds nothing.
C29_GatherOnShapeResolvesAtLowering ==
  (pc = "nodes" /\ ThisNode.op_type = "Gather" /\ Len(ThisNode.output) = 1)
    => \A refs \in NodeInputs, attr \in NodeAttributes, lib \in LibOutcomes :
         LET ins == node_inputs(_nodes, refs)
             r == construct_node(_nodes, ThisNode, node_index, refs, attr,
                                 opset, lib)
             data == ins.inputs[1]
             indices == ins.inputs[2]
             k == indices.data[1]
         IN (/\ attr.ok
             /\ ins.ok
             /\ Len(refs) >= 2
             /\ data.kind = "ShapeExpr"
             /\ indices # None)
              => IF indices.kind # "Constant"
                   THEN ~r.ok /\ r.env = _nodes
                   ELSE (/\ Len(indices.data) = 1
                         /\ Len(indices.shape) <= 1
                         /\ k \in 0..(Len(data.data) - 1))
                          => IF data.data[k + 1] # Dyn
                               THEN /\ r.ok
                                    /\ r.call = [op_name |-> "Gather", version |-> 13]
                                    /\ r.env[ThisNode.output[1]] =
                                         Expr("Constant", "Tensor", <<>>,
                                              <<data.data[k + 1]>>, "node",
                                              node_index)
                                    /\ \A n \in DOMAIN r.env :
                                         r.env[n].kind = "Call"
                                           => (n \in DOMAIN _nodes
                                               /\ _nodes[n] = r.env[n])
                               ELSE ~r.ok /\ r.env = _nodes

\* Shape then Gather with the index 0: the output is the first dimension.
C29_Witness ==
  /\ pc = "done"
  /\ Len(node) = 2
  /\ node[2].op_type = "Gather"
  /\ num_calls = 2
  /\ _nodes["x"] = Expr("Constant", "Tensor", <<>>, <<2>>, "node", 1)
  /\ _nodes["w.1"].kind = "Constant"
  /\ _nodes["w.1"].src = "initializer"

\* C28: for a list of n operands and an integer index i, reading position i
\* never raises; it gives the stored element (counted from the end for a
\* negative i) when -n <= i < n and None otherwise.
C28_GetitemNeverRaises ==
  pc = "got"
    => /\ got.ok
       /\ got.value = IF -Len(onnx_inputs) <= position
                         /\ position < Len(onnx_inputs)
                        THEN PyIndex(onnx_inputs, position)
                        ELSE None

\* C26: every exception that ends the pass while a node is being processed
\* carries the operator name of that node and its declaration index.
C26_NodeErrorsCarryOperatorAndIndex ==
  (pc = "failed" /\ error.at = "nodes")
    => {"op_name", "node_index"} \subseteq message_fields(error)

\* C30, as stated: once the declared inputs are bound, with sanitization
\* enabled, the keys of the environment are the names of the initializers
\* and the raw names of the declared inputs; a reference to the raw name r of
\* a declared input resolves to its parameter, whose visible name is the
\* sanitized one; and a node that refers to the sanitized spelling, when it
\* differs from r and is no key, fails with a KeyError and binds nothing.
C30_AsStated ==
  /\ (pc = "check" \/ (pc = "nodes" /\ node_index = 0))
       => DOMAIN _nodes = InitNames \cup InputNames
  /\ (pc = "nodes" /\ node_index = 0 /\ _sanitize)
       => \A r \in InputNames \ InitNames :
            LET param == (CHOOSE e \in Range(_inputs) : e.name = r).value
                visible == _sanitize_name(NameSupply, Chars(r)).name
            IN /\ _nodes[r] = param
               /\ param.kind = "Var"
               /\ param.name = visible
               /\ TRUE =>
                    \A refs \in NodeInputs :
                       LET ins == node_inputs(_nodes, refs)
                       IN /\ (\A j \in 1..Len(refs) :
                                refs[j] = "" \/ refs[j] \in DOMAIN _nodes) => ins.ok
                          /\ ins.ok => \A j \in 1..Len(refs) :
                                         refs[j] = r => ins.inputs[j] = param
               /\ \A sp \in {"", "x", "w.1", "w_1", "empty_"} :
                    (Chars(sp) = visible /\ sp # r /\ sp \notin DOMAIN _nodes)
                      => \A refs \in SeqUpTo(RefNames \cup {sp}, MaxRefs),
                            attr \in NodeAttributes, lib \in LibOutcomes :
                           LET res == construct_node(_nodes, ThisNode, node_index,
                                                     refs, attr, opset, lib)
                           IN (attr.ok /\ sp \in Range(refs))
                                => /\ ~res.ok
                                   /\ res.exc.kind = "KeyError"
                                   /\ res.env = _nodes

\* C30: the same for every declared input of a raw name r that is not empty:
\* a reference to the empty name is an absent operand, also when a declared
\* input of the empty name is bound.
C30_EnvironmentKeyedByRawNames ==
  /\ (pc = "check" \/ (pc = "nodes" /\ node_index = 0))
       => DOMAIN _nodes = InitNames \cup InputNames
  /\ (pc = "nodes" /\ node_index = 0 /\ _sanitize)
       => \A r \in InputNames \ InitNames :
            LET param == (CHOOSE e \in Range(_inputs) : e.name = r).value
                visible == _sanitize_name(NameSupply, Chars(r)).name
            IN /\ _nodes[r] = param
               /\ param.kind = "Var"
               /\ param.name = visible
               /\ r # "" =>
                    \A refs \in NodeInputs :
                       LET ins == node_inputs(_nodes, refs)
                       IN /\ (\A j \in 1..Len(refs) :
                                refs[j] = "" \/ refs[j] \in DOMAIN _nodes) => ins.ok
                          /\ ins.ok => \A j \in 1..Len(refs) :
                                         refs[j] = r => ins.inputs[j] = param
               /\ \A sp \in {"", "x", "w.1", "w_1", "empty_"} :
                    (Chars(sp) = visible /\ sp # r /\ sp \notin DOMAIN _nodes)
                      => \A refs \in SeqUpTo(RefNames \cup {sp}, MaxRefs),
                            attr \in NodeAttributes, lib \in LibOutcomes :
                           LET res == construct_node(_nodes, ThisNode, node_index,
                                                     refs, attr, opset, lib)
                           IN (attr.ok /\ sp \in Range(refs))
                                => /\ ~res.ok
                                   /\ res.exc.kind = "KeyError"
                                   /\ res.env = _nodes

\* The input "w.1" was declared and is a parameter of the visible name
\* "w_1", bound under "w.1"; the first node is about to be processed.
C30_Witness ==
  /\ pc = "nodes"
  /\ node_index = 0
  /\ _sanitize
  /\ "w.1" \in InputNames \ InitNames
  /\ _nodes["w.1"].kind = "Var"
  /\ _nodes["w.1"].name = <<"w", "_", "1">>
  /\ "w_1" \notin DOMAIN _nodes

====
